---- MODULE Spec2Model ----
(***************************************************************************)
(* AI-Tooltip browser extension.                                           *)
(*                                                                         *)
(* Part 1 - the usage-metered request gate of the service worker           *)
(* (background.js: resolveUsageAndApiKey, handleRequest,                   *)
(* ensureOffscreenReady, initializeFreeTierDefaults, the onMessage         *)
(* listener) together with the popup handlers that write the same          *)
(* chrome.storage.sync keys (popup.js: save button, startGoogleUpgrade).   *)
(*                                                                         *)
(* Part 2 - the hover pipelines of the content script (src/content.ts:     *)
(* handleHover, resetHoverTimeout, the three schedule...Hover functions,   *)
(* showTooltip and the two chrome.storage.local caches).                   *)
(*                                                                         *)
(* Strings that the code inspects character by character (the API key      *)
(* typed in the popup, which is trimmed) are sequences of characters;      *)
(* strings that are only compared are TLA+ strings.                        *)
(***************************************************************************)
EXTENDS Integers, Sequences, FiniteSets, TLC

(***************************************************************************)
(* Bounds of the model.                                                    *)
(***************************************************************************)
\* CONFIG.FREE_TIER_LIMIT (background.js:11): any number; kept small here.
FREE_TIER_LIMIT == 1
\* number of handleRequest invocations that can be in flight together
MaxCalls == 2
\* calls of pingOffscreen (one per attempt of ensureOffscreenReady, and one
\* ensureOffscreenReady per request in the worker)
MaxPings == 3
\* total number of summarizeText / ocrImage messages received
MaxRequests == 2
\* number of times chrome.runtime.onInstalled fires (install, then updates)
MaxInstalls == 1

\* elements of the page that can be hovered
MaxElements == 4
\* debounce timers that fire, hence hover pipelines started
MaxHovers == 2
\* showSummaryTooltip messages (context-menu summaries) received by the page
MaxSummaries == 1
\* white space before and after the text of a hovered element
MaxPad == 1
\* the latest reading of the clock, in units of 5 minutes
MaxTime == 3

(***************************************************************************)
(* Program constants.                                                      *)
(***************************************************************************)
MAX_ATTEMPTS == 5

\* content.ts lines 32-33, in units of 5 minutes (300000 ms)
PREVIEW_CACHE_DURATION_MS == 1

SUMMARY_CACHE_DURATION_MS == 2

\* content.ts lines 34-35
MIN_TEXT_LENGTH == 50

MAX_TEXT_LENGTH == 2000

\* a storage key that was never written (JavaScript undefined)
Undefined == -1

\* the empty string, also standing for an absent string value (both falsy)
NoString == <<>>

\* the developer-managed key of config.js, when one is configured
DevKey == <<"d">>

Calls == 1..MaxCalls

\* the calls of pingOffscreen
Pings == 1..MaxPings

Actions == {"summarizeText", "ocrImage"}

VARIABLES
  \* chrome.storage.sync
  llmApiKey, freeTooltipsUsed, subscriptionStatus,
  \* config.js
  DEFAULT_FREE_API_KEY, GOOGLE_CLIENT_ID,
  \* storage operations issued by the service worker, oldest first
  syncQueue,
  \* the handleRequest invocations
  call,
  \* the invocation that ended in the latest step, with the response it sent
  \* (NewCall when the latest step ended none)
  last,
  \* the responses handed to sendResponse, by the hover pipeline whose
  \* request they answer
  served,
  \* whether the offscreen document exists
  offscreenDoc,
  \* popup.js: whether launchWebAuthFlow is waiting for its callback
  authPending,
  \* event: what the launchWebAuthFlow callback that ran in this step was
  \* called with, "" when none ran
  authResult,
  \* history: messages received, free grants returned, onInstalled events
  requests, granted, installs,
  \* content.ts, the page: elements attached to the document, and the element
  \* under the pointer (0 for none)
  attached, pointer,
  \* the target of the pending debounce timer, 0 when hoverTimeout is null or
  \* names a timer that has fired
  hoverTimeout,
  \* the HOVER_DELAY timers that are set and have neither fired nor been
  \* cleared, each named by its target
  timers,
  \* event: the target of the timer that this step's clearTimeout call
  \* cancelled, 0 when the step cancelled none
  cleared,
  \* event: what this step's read of the summary cache found ("hit", "miss",
  \* "expired" for an entry it removed, "fails"), "" when the step read nothing
  readOutcome,
  \* "result" when the sendMessage callback that ran in the step just taken
  \* was given a result and returned without reading it, its target having
  \* left the document
  dropped,
  \* the hover pipelines started by debounce timers
  hover,
  \* the tooltip showTooltip tracks (0 for null); tooltips are numbered in the
  \* order of their creation, tooltipSeq being the latest
  currentTooltip, tooltipSeq,
  \* tooltips whose AUTO_HIDE_DELAY timer is pending
  autoHide,
  \* elements holding a once-only mouseout listener of showTooltip
  mouseoutListeners,
  \* the hover tooltip elements in the document, and the context-menu summary
  \* tooltips by the showSummaryTooltip message that created them
  tooltips, fixed,
  \* chrome.storage.local: the timestamp of the summary entry and of the
  \* preview entry of each key, Undefined for a key without entry
  summaryCache, previewCache,
  \* the showTooltip call made in the latest step (NoShow when there was none)
  shown,
  \* history: debounce timers fired
  firings,
  \* Date.now(), in units of 5 minutes
  now,
  \* the element handed to handleHover and the pipeline it scheduled for it
  candidate, classified,
  \* the getOrCapturePreview call that just settled: its key, whether the
  \* read of the cache, the capture and the write of the cache succeeded,
  \* and what it returned
  previewCall,
  \* the calls of pingOffscreen: the state of the promise, the flag
  \* 'settled', whether the timeout is pending, whether the callback of
  \* sendMessage is still to run, what the callback was given, why the
  \* promise was rejected, and how often resolve or reject was called
  ping

gateVars == <<llmApiKey, freeTooltipsUsed, subscriptionStatus,
              DEFAULT_FREE_API_KEY, GOOGLE_CLIENT_ID, syncQueue, call, last, served,
              offscreenDoc, authPending, authResult, requests, granted, installs>>

tooltipVars == <<currentTooltip, tooltipSeq, autoHide, mouseoutListeners,
                 tooltips, fixed>>

timerVars == <<hoverTimeout, timers>>

restVars == <<now, candidate, classified, previewCall, ping>>

cacheVars == <<summaryCache, previewCache>>

hoverVars == <<attached, pointer, timerVars, cleared, readOutcome, dropped, hover, tooltipVars, cacheVars,
               shown, firings, restVars>>

storageVars == <<llmApiKey, freeTooltipsUsed, subscriptionStatus>>

configVars == <<DEFAULT_FREE_API_KEY, GOOGLE_CLIENT_ID>>

vars == <<gateVars, hoverVars>>

Max(a, b) == IF a >= b THEN a ELSE b

(***************************************************************************)
(* String.prototype.trim on a sequence of characters.                      *)
(***************************************************************************)
RECURSIVE TrimStart(_)
TrimStart(s) ==
  IF s # <<>> /\ Head(s) = " " THEN TrimStart(Tail(s)) ELSE s

RECURSIVE TrimEnd(_)
TrimEnd(s) ==
  IF s # <<>> /\ s[Len(s)] = " " THEN TrimEnd(SubSeq(s, 1, Len(s) - 1)) ELSE s

Trim(s) == TrimEnd(TrimStart(s))

\* texts typed in the popup's API key field: empty, blank, a key, and a key
\* with blanks around it
KeyInputs == {<<>>, <<" ">>, <<"k">>, <<" ", "k", " ">>}

(***************************************************************************)
(* Records.                                                                *)
(***************************************************************************)
\* what storageSyncGet(['llmApiKey','freeTooltipsUsed','subscriptionStatus'])
\* delivers
StoredData ==
  [llmApiKey |-> llmApiKey,
   freeTooltipsUsed |-> freeTooltipsUsed,
   subscriptionStatus |-> subscriptionStatus]

NoData ==
  [llmApiKey |-> NoString, freeTooltipsUsed |-> Undefined, subscriptionStatus |-> ""]

NoUsageInfo ==
  [plan |-> "", freeTierLimit |-> 0, freeTooltipsRemaining |-> 0, freeTooltipsUsed |-> 0]

NoResolution ==
  [error |-> "", requiresUpgrade |-> FALSE, apiKey |-> NoString,
   usageInfo |-> NoUsageInfo, newUsedCount |-> Undefined]

\* a handleRequest invocation that has not started; id names the hover
\* pipeline that sent the message, 0 for a sender that is not modelled
NewCall ==
  [pc |-> "idle", id |-> 0, action |-> "", data |-> NoData,
   apiResolution |-> NoResolution, wrote |-> Undefined, attempt |-> 0,
   apiKeySent |-> NoString, response |-> {}]

\* the popup's upgrade button: disabled without a client id (lines 51-55)
\* and while the identity flow runs (lines 64, 78)
upgradeButtonDisabled == authPending \/ GOOGLE_CLIENT_ID = ""

(***************************************************************************)
(* Faulty variants of the conditions below.  Each property is also checked *)
(* with one of them in place of the original, where it has to fail.        *)
(***************************************************************************)
\* line 123 testing the plan instead of the key
CustomKeyOnly(data) == data.llmApiKey # NoString /\ data.subscriptionStatus = "custom"

\* line 130 never taken
PaidNoKey(status) == FALSE

\* line 130 taken only once the free actions are used up
PaidDeniedWhenExhausted(status) ==
  status = "paid" /\ freeTooltipsUsed # Undefined /\ freeTooltipsUsed >= FREE_TIER_LIMIT

\* line 138 with > for >=
LimitExceeded(used) == used > FREE_TIER_LIMIT

\* line 138 without the test
LimitNeverReached(used) == FALSE

\* popup.js line 107 without the emptiness test
KeyAlwaysAccepted(apiKey) == TRUE

(***************************************************************************)
(* resolveUsageAndApiKey, from the data read to the decision: lines        *)
(* 112-166 without the two awaits.  error = "" is a proceed decision;      *)
(* newUsedCount is the value handed to storageSyncSet, Undefined when the  *)
(* branch writes nothing.                                                  *)
(***************************************************************************)
\* line 112
StatusOf(data) == IF data.subscriptionStatus = "" THEN "free" ELSE data.subscriptionStatus

\* line 113
UsedOf(data) == IF data.freeTooltipsUsed = Undefined THEN 0 ELSE data.freeTooltipsUsed

\* lines 114 and 163
RemainingOf(used) == Max(FREE_TIER_LIMIT - used, 0)

\* line 123
CustomKeyPresent(data) == data.llmApiKey # NoString

\* line 130
PaidWithoutKey(status) == status = "paid"

\* line 138
LimitReached(used) == used >= FREE_TIER_LIMIT

\* line 146 never taken
FallbackNeverMissing(action) == FALSE

\* line 146
FallbackKeyMissing(action) == action = "summarizeText" /\ DEFAULT_FREE_API_KEY = NoString

\* faulty variant: the exhaustion branch counts the denied action
resolveCountingDenials(action, data) ==
  [error |-> "Free tier limit reached", requiresUpgrade |-> TRUE, apiKey |-> NoString,
   usageInfo |->
     [plan |-> StatusOf(data), freeTierLimit |-> FREE_TIER_LIMIT,
      freeTooltipsRemaining |-> 0, freeTooltipsUsed |-> UsedOf(data)],
   newUsedCount |-> UsedOf(data) + 1]

resolveUsageAndApiKey(action, data) ==
  LET subscriptionStatus_ == StatusOf(data)
      used == UsedOf(data)
      usageInfoBase ==
        [plan |-> subscriptionStatus_, freeTierLimit |-> FREE_TIER_LIMIT,
         freeTooltipsRemaining |-> RemainingOf(used), freeTooltipsUsed |-> used]
      newUsedCount == used + 1
  IN  IF CustomKeyPresent(data) THEN
        [error |-> "", requiresUpgrade |-> FALSE, apiKey |-> data.llmApiKey,
         usageInfo |->
           [usageInfoBase EXCEPT
              !.plan = IF subscriptionStatus_ = "paid" THEN "paid" ELSE "custom"],
         newUsedCount |-> Undefined]
      ELSE IF PaidWithoutKey(subscriptionStatus_) THEN
        [error |-> "Subscription active. Please add your personal API key",
         requiresUpgrade |-> FALSE, apiKey |-> NoString,
         usageInfo |-> usageInfoBase, newUsedCount |-> Undefined]
      ELSE IF LimitReached(used) THEN
        [error |-> "Free tier limit reached",
         requiresUpgrade |-> TRUE, apiKey |-> NoString,
         usageInfo |-> [usageInfoBase EXCEPT !.freeTooltipsRemaining = 0],
         newUsedCount |-> Undefined]
      ELSE IF FallbackKeyMissing(action) THEN
        [error |-> "Free tier unavailable. Configure a developer-managed API key",
         requiresUpgrade |-> TRUE, apiKey |-> NoString,
         usageInfo |-> usageInfoBase, newUsedCount |-> Undefined]
      ELSE
        [error |-> "", requiresUpgrade |-> FALSE,
         apiKey |-> IF action = "summarizeText" THEN DEFAULT_FREE_API_KEY ELSE NoString,
         usageInfo |->
           [usageInfoBase EXCEPT
              !.plan = "free",
              !.freeTooltipsRemaining = RemainingOf(newUsedCount),
              !.freeTooltipsUsed = newUsedCount],
         newUsedCount |-> newUsedCount]

(***************************************************************************)
(* The responses handleRequest and the onMessage listener send.  usageInfo *)
(* is a set holding the snapshot, empty when the response has no usageInfo *)
(* property.                                                               *)
(***************************************************************************)
Response(success, result, error, errorCode, usageInfo) ==
  [success |-> success, result |-> result, error |-> error,
   errorCode |-> errorCode, usageInfo |-> usageInfo]

\* handleRequest, lines 172-179
DenialResponse(res) ==
  Response(FALSE, "", res.error,
           IF res.requiresUpgrade THEN "FREE_TIER_EXHAUSTED" ELSE "API_KEY_REQUIRED",
           {res.usageInfo})

\* handleRequest, lines 190-199 and 208-217
UnavailableResponse(res) ==
  Response(FALSE, "", "Background worker unavailable.", "OFFSCREEN_UNAVAILABLE",
           {res.usageInfo})

\* the onMessage listener's catch, lines 260-267
UnexpectedErrorResponse ==
  Response(FALSE, "", "Unexpected error occurred.", "UNEXPECTED_ERROR", {})

\* processLLM of the offscreen document, lines 376-402; ok is whether the
\* backend (OpenAI call, OCR) delivered a result
processLLM(type, apiKey, ok) ==
  IF type = "summarize" THEN
    IF apiKey = NoString THEN Response(FALSE, "", "Missing OpenAI API key.", "", {})
    ELSE IF ok THEN Response(TRUE, "summary", "", "", {})
    ELSE Response(FALSE, "", "OpenAI request failed.", "", {})
  ELSE
    IF ok THEN Response(TRUE, "ocrResult", "", "", {})
    ELSE Response(FALSE, "", "OCR failed", "", {})

\* the sendMessage callback of handleRequest, lines 207-226; reply is the set
\* holding the processor's response, empty when the callback got none
ProcessorPayload(res, reply) ==
  LET payload ==
        IF reply = {} THEN
          Response(FALSE, "", "No response from processor.", "NO_PROCESSOR_RESPONSE", {})
        ELSE CHOOSE r \in reply : TRUE
  IN  [payload EXCEPT !.usageInfo = {res.usageInfo}]

(***************************************************************************)
(* chrome.storage.sync as seen from the service worker.  The worker's      *)
(* get/set calls are served in the order they were issued; serving one     *)
(* runs its callback and the continuation awaiting it, which may issue     *)
(* the next call.  owner 0 is initializeFreeTierDefaults.  A set is taken  *)
(* to succeed (the code never inspects lastError after a set); a get may   *)
(* fail, in which case its callback runs without items.                    *)
(***************************************************************************)
GetOp(owner) == [owner |-> owner, op |-> "get", used |-> Undefined, status |-> ""]

\* a set of the items given: used = Undefined and status = "" are items left out
SetOp(owner, used, status) == [owner |-> owner, op |-> "set", used |-> used, status |-> status]

HeadIs(owner, op) ==
  /\ syncQueue # <<>>
  /\ Head(syncQueue).owner = owner
  /\ Head(syncQueue).op = op

(***************************************************************************)
(* The onMessage listener, lines 256-269: a summarizeText or ocrImage      *)
(* message starts handleRequest, which calls resolveUsageAndApiKey, which  *)
(* issues storageSyncGet (line 111).                                       *)
(***************************************************************************)
\* last shows the invocation that ended in the step just taken
NoneFinished == last' = NewCall /\ UNCHANGED served

\* sendResponse (lines 257-267) hands the response to the sender
Serve(id, response) ==
  served' = IF id = 0 THEN served ELSE [served EXCEPT ![id] = {response}]

\* the listener runs for a message of the sender id
Receive(c, a, id) ==
  /\ call[c].pc = "idle"
  /\ \A d \in Calls : d < c => call[d].pc # "idle"
  /\ requests < MaxRequests
  /\ call' = [call EXCEPT ![c] = [NewCall EXCEPT !.pc = "get", !.action = a, !.id = id]]
  /\ syncQueue' = Append(syncQueue, GetOp(c))
  /\ requests' = requests + 1
  /\ authResult' = ""
  /\ NoneFinished
  /\ UNCHANGED <<storageVars, configVars, offscreenDoc, authPending,
                 granted, installs, hoverVars>>

ReceiveMessage(c, a) == Receive(c, a, 0)

\* sendResponse: the invocation ends with this response
Respond(c, response) ==
  /\ authResult' = ""
  /\ Serve(call[c].id, response)
  /\ last' = [call[c] EXCEPT !.pc = "done", !.response = {response}]
  /\ call' = [call EXCEPT ![c] = NewCall]

\* faulty variant of AfterGet: a free grant goes on to line 181 without
\* awaiting storageSyncSet
AfterGetNoAwait(c, data) ==
  LET res == resolveUsageAndApiKey(call[c].action, data)
      decided == [call[c] EXCEPT !.data = data, !.apiResolution = res]
  IN  IF res.error # "" THEN [decided EXCEPT !.pc = "done"]
      ELSE [decided EXCEPT !.pc = "ensure", !.apiKeySent = res.apiKey]

\* the state of a call once the data of line 111 has arrived: the decision is
\* taken; a denial is answered at once (lines 172-179), a free grant issues
\* storageSyncSet (line 156), a custom-key grant goes on to line 181
AfterGet(c, data) ==
  LET res == resolveUsageAndApiKey(call[c].action, data)
      decided == [call[c] EXCEPT !.data = data, !.apiResolution = res]
  IN  IF res.error # "" THEN
        [decided EXCEPT !.pc = "done"]
      ELSE IF res.newUsedCount # Undefined THEN
        [decided EXCEPT !.pc = "set"]
      ELSE
        [decided EXCEPT !.pc = "ensure", !.apiKeySent = res.apiKey]

ResolveRead(c) ==
  /\ HeadIs(c, "get")
  /\ call[c].pc = "get"
  /\ LET next == AfterGet(c, StoredData)
     IN  /\ IF next.pc = "done"
            THEN /\ authResult' = ""
                 /\ last' = [next EXCEPT !.response = {DenialResponse(next.apiResolution)}]
                 /\ Serve(next.id, DenialResponse(next.apiResolution))
                 /\ call' = [call EXCEPT ![c] = NewCall]
            ELSE /\ call' = [call EXCEPT ![c] = next]
                 /\ authResult' = ""
                 /\ NoneFinished
         /\ syncQueue' =
              IF next.apiResolution.newUsedCount # Undefined
              THEN Append(Tail(syncQueue), SetOp(c, next.apiResolution.newUsedCount, ""))
              ELSE Tail(syncQueue)
  /\ UNCHANGED <<storageVars, configVars, offscreenDoc, authPending,
                 requests, granted, installs, hoverVars>>

\* the read fails: the callback runs with no items, line 112 throws a
\* TypeError, handleRequest rejects and the listener's catch answers
\* (lines 260-267)
ResolveReadFails(c) ==
  /\ HeadIs(c, "get")
  /\ call[c].pc = "get"
  /\ Respond(c, UnexpectedErrorResponse)
  /\ syncQueue' = Tail(syncQueue)
  /\ UNCHANGED <<storageVars, configVars, offscreenDoc, authPending,
                 requests, granted, installs, hoverVars>>

\* the state of a call once storageSyncSet of line 156 has completed:
\* resolveUsageAndApiKey returns the grant and handleRequest goes on to
\* line 181
AfterSet(c, written) ==
  [call[c] EXCEPT !.pc = "ensure", !.wrote = written,
                  !.apiKeySent = call[c].apiResolution.apiKey]

\* storageSyncSet of line 156 is served
ResolveWrite(c) ==
  /\ HeadIs(c, "set")
  /\ freeTooltipsUsed' = Head(syncQueue).used
  /\ IF call[c].pc = "set"
     THEN /\ call' = [call EXCEPT ![c] = AfterSet(c, Head(syncQueue).used)]
          /\ granted' = granted + 1
     ELSE UNCHANGED <<call, granted>>
  /\ syncQueue' = Tail(syncQueue)
  /\ authResult' = ""
  /\ NoneFinished
  /\ UNCHANGED <<llmApiKey, subscriptionStatus, configVars, offscreenDoc,
                 authPending, requests, installs, hoverVars>>

\* handleRequest past the gate, lines 181-228, seen from the gate: it reads
\* and writes nothing of chrome.storage.sync
Dispatched(c) ==
  /\ call[c].pc = "ensure"
  /\ call[c].attempt = 0
  /\ authResult' = ""
  /\ last' = [call[c] EXCEPT !.pc = "dispatched"]
  /\ UNCHANGED served
  /\ call' = [call EXCEPT ![c] = NewCall]
  /\ UNCHANGED <<storageVars, configVars, syncQueue, offscreenDoc, authPending,
                 requests, granted, installs, hoverVars>>

(***************************************************************************)
(* handleRequest past the gate, lines 181-228: ensureOffscreenReady        *)
(* (lines 60-94), then the processInOffscreen round trip.                  *)
(***************************************************************************)
\* top of the while loop, lines 64-71: count the attempt, create the
\* offscreen document when it is missing
EnsureAttempt(c) ==
  /\ call[c].pc = "ensure"
  /\ call' = [call EXCEPT ![c] = [@ EXCEPT !.pc = "ping", !.attempt = @ + 1]]
  /\ offscreenDoc' = TRUE
  /\ authResult' = ""
  /\ NoneFinished
  /\ UNCHANGED <<storageVars, configVars, syncQueue, authPending,
                 requests, granted, installs, hoverVars>>

\* pingOffscreen resolves, lines 74-78: the document answered {status: 'ok'};
\* handleRequest sends processInOffscreen (line 201)
PingOk(c) ==
  /\ call[c].pc = "ping"
  /\ offscreenDoc
  /\ call' = [call EXCEPT ![c] = [@ EXCEPT !.pc = "process"]]
  /\ authResult' = ""
  /\ NoneFinished
  /\ UNCHANGED <<storageVars, configVars, syncQueue, offscreenDoc, authPending,
                 requests, granted, installs, hoverVars>>

\* pingOffscreen rejects (timeout, lastError or an unexpected reply), lines
\* 79-92: give up at MAX_ATTEMPTS, otherwise close the document and retry
PingFails(c) ==
  /\ call[c].pc = "ping"
  /\ IF call[c].attempt >= MAX_ATTEMPTS
     THEN /\ Respond(c, UnavailableResponse(call[c].apiResolution))
          /\ UNCHANGED offscreenDoc
     ELSE /\ call' = [call EXCEPT ![c] = [@ EXCEPT !.pc = "ensure"]]
          /\ offscreenDoc' = FALSE
          /\ authResult' = ""
          /\ NoneFinished
  /\ UNCHANGED <<storageVars, configVars, syncQueue, authPending,
                 requests, granted, installs, hoverVars>>

\* faulty variant: the callback returns on lastError without resolving the
\* promise of line 187
UnreachableLeftPending(c) ==
  /\ call[c].pc = "process"
  /\ call' = [call EXCEPT ![c] = [@ EXCEPT !.pc = "pending"]]
  /\ authResult' = ""
  /\ NoneFinished
  /\ UNCHANGED <<storageVars, configVars, syncQueue, offscreenDoc, authPending,
                 requests, granted, installs, hoverVars>>

\* faulty variant: the counter is set back when the processor cannot be
\* reached
UnreachableRefunds(c) ==
  /\ call[c].pc = "process"
  /\ Respond(c, UnavailableResponse(call[c].apiResolution))
  /\ freeTooltipsUsed' = IF call[c].wrote = Undefined THEN freeTooltipsUsed
                         ELSE call[c].wrote - 1
  /\ UNCHANGED <<llmApiKey, subscriptionStatus, configVars, syncQueue, offscreenDoc,
                 authPending, requests, granted, installs, hoverVars>>

\* the callback of line 207 runs with chrome.runtime.lastError set
ProcessorUnreachable(c) ==
  /\ call[c].pc = "process"
  /\ Respond(c, UnavailableResponse(call[c].apiResolution))
  /\ UNCHANGED <<storageVars, configVars, syncQueue, offscreenDoc, authPending,
                 requests, granted, installs, hoverVars>>

\* the callback of line 207 runs without a response
ProcessorSilent(c) ==
  /\ call[c].pc = "process"
  /\ Respond(c, ProcessorPayload(call[c].apiResolution, {}))
  /\ UNCHANGED <<storageVars, configVars, syncQueue, offscreenDoc, authPending,
                 requests, granted, installs, hoverVars>>

\* the offscreen listener (lines 411-425) answers with processLLM's result
ProcessorReplies(c, ok) ==
  /\ call[c].pc = "process"
  /\ offscreenDoc
  /\ LET type == IF call[c].action = "summarizeText" THEN "summarize" ELSE "ocr"
         reply == processLLM(type, call[c].apiKeySent, ok)
     IN  Respond(c, ProcessorPayload(call[c].apiResolution, {reply}))
  /\ UNCHANGED <<storageVars, configVars, syncQueue, offscreenDoc, authPending,
                 requests, granted, installs, hoverVars>>

(***************************************************************************)
(* Install and startup, lines 232-236, and initializeFreeTierDefaults,     *)
(* lines 96-108.                                                           *)
(***************************************************************************)
\* createOffscreen, then the storageSyncGet of line 97
OnInstalled ==
  /\ installs < MaxInstalls
  /\ installs' = installs + 1
  /\ offscreenDoc' = TRUE
  /\ syncQueue' = Append(syncQueue, GetOp(0))
  /\ authResult' = ""
  /\ NoneFinished
  /\ UNCHANGED <<storageVars, configVars, call, authPending,
                 requests, granted, hoverVars>>

\* lines 98-104: the items initializeFreeTierDefaults decides to write
InitUpdates(data) ==
  SetOp(0,
        IF data.freeTooltipsUsed = Undefined THEN 0 ELSE Undefined,
        IF data.subscriptionStatus = "" THEN "free" ELSE "")

InitRead ==
  /\ HeadIs(0, "get")
  /\ LET updates == InitUpdates(StoredData)
     IN  syncQueue' =
           IF updates.used # Undefined \/ updates.status # ""
           THEN Append(Tail(syncQueue), updates)
           ELSE Tail(syncQueue)
  /\ authResult' = ""
  /\ NoneFinished
  /\ UNCHANGED <<storageVars, configVars, call, offscreenDoc, authPending,
                 requests, granted, installs, hoverVars>>

\* the read fails: line 99 throws and nothing is written
InitReadFails ==
  /\ HeadIs(0, "get")
  /\ syncQueue' = Tail(syncQueue)
  /\ authResult' = ""
  /\ NoneFinished
  /\ UNCHANGED <<storageVars, configVars, call, offscreenDoc, authPending,
                 requests, granted, installs, hoverVars>>

\* storageSyncSet of line 106 is served
InitWrite ==
  /\ HeadIs(0, "set")
  /\ LET updates == Head(syncQueue)
     IN  /\ freeTooltipsUsed' =
              IF updates.used # Undefined THEN updates.used ELSE freeTooltipsUsed
         /\ subscriptionStatus' =
              IF updates.status # "" THEN updates.status ELSE subscriptionStatus
  /\ syncQueue' = Tail(syncQueue)
  /\ authResult' = ""
  /\ NoneFinished
  /\ UNCHANGED <<llmApiKey, configVars, call, offscreenDoc, authPending,
                 requests, granted, installs, hoverVars>>

(***************************************************************************)
(* popup.js.  The popup is another context: its storage writes take        *)
(* effect at any point between the worker's.                               *)
(***************************************************************************)
\* line 107: if (apiKey)
KeyAccepted(apiKey) == apiKey # NoString

\* save button, lines 105-121
SaveKey(input) ==
  LET apiKey == Trim(input)
  IN  /\ IF KeyAccepted(apiKey)
         THEN /\ llmApiKey' = apiKey
              /\ subscriptionStatus' = "custom"
         ELSE UNCHANGED <<llmApiKey, subscriptionStatus>>
      /\ authResult' = ""
      /\ NoneFinished
      /\ UNCHANGED <<freeTooltipsUsed, configVars, syncQueue, call, offscreenDoc,
                     authPending, requests, granted, installs, hoverVars>>

\* click on the upgrade button, startGoogleUpgrade lines 57-76; a disabled
\* button receives no click
StartGoogleUpgrade ==
  /\ ~upgradeButtonDisabled
  /\ authPending' = (GOOGLE_CLIENT_ID # "")
  /\ authResult' = ""
  /\ NoneFinished
  /\ UNCHANGED <<storageVars, configVars, syncQueue, call, offscreenDoc,
                 requests, granted, installs, hoverVars>>

\* what the callback can be called with: lastError set, no redirect URL, a
\* redirect URL without 'access_token=', a redirect URL with it
AuthOutcomes == {"lastError", "noRedirect", "noToken", "token"}

\* faulty variant: every return of the flow upgrades
FlowAlwaysUpgrades(outcome) == TRUE

\* lines 81-91: neither of the two early returns is taken
FlowUpgrades(outcome) == outcome = "token"

\* the launchWebAuthFlow callback, lines 77-98
AuthFlowReturns(outcome) ==
  /\ authPending
  /\ authPending' = FALSE
  /\ authResult' = outcome
  /\ subscriptionStatus' = IF FlowUpgrades(outcome) THEN "paid" ELSE subscriptionStatus
  /\ NoneFinished
  /\ UNCHANGED <<llmApiKey, freeTooltipsUsed, configVars, syncQueue, call, offscreenDoc, requests, granted, installs, hoverVars>>

(***************************************************************************)
(* content.ts.  Elements are numbered; the summary and preview cache keys  *)
(* of an element (getSummaryCacheKey, getButtonSummaryCacheKey,            *)
(* getPreviewCacheKey) live in three disjoint key spaces and are named by  *)
(* the element.                                                            *)
(***************************************************************************)
Elements == 1..MaxElements

Hovers == 1..MaxHovers

Summaries == 1..MaxSummaries

\* a pipeline calls showTooltip when its timer fires and at most once more
Tooltips == 1..(2 * MaxHovers)

(***************************************************************************)
(* Classification of the event target by handleHover.  An element is its   *)
(* tag name (which stands for its class: A for HTMLAnchorElement, IMG for  *)
(* HTMLImageElement, ...), its src and href properties, its role, id and   *)
(* aria-label attributes and its textContent, strings being sequences of   *)
(* characters.  NoString stands for null as well as for '': the code only  *)
(* tests these values for truthiness.                                      *)
(***************************************************************************)
\* no element: handleHover was not called
NoElement ==
  [tag |-> "", src |-> <<>>, role |-> "", href |-> <<>>, id |-> <<>>,
   ariaLabel |-> <<>>, textContent |-> <<>>]

Chars(n) == [i \in 1..n |-> "x"]

Blanks(n) == [i \in 1..n |-> " "]

\* a || b of JavaScript on strings
OrElse(a, b) == IF a # NoString THEN a ELSE b

\* extractTextFromElement lines 109-127
textContainers ==
  {"P", "H1", "H2", "H3", "H4", "H5", "H6", "LI", "BLOCKQUOTE", "DD", "DT",
   "TD", "TH", "SPAN", "DIV", "ARTICLE", "SECTION"}

\* faulty variant: the text of the element as it stands
textContentUntrimmed(element) == element.textContent

\* extractTextFromElement line 135: element.textContent?.trim() || ''
trimmedText(element) == Trim(element.textContent)

\* extractTextFromElement, lines 96-142: the text to summarize, NoString
\* for null
extractTextFromElement(element) ==
  IF \/ element.tag \in {"A", "BUTTON", "INPUT", "TEXTAREA", "SELECT"}
     \/ element.role = "button"
  THEN NoString
  ELSE IF element.tag \notin textContainers THEN NoString
  ELSE LET text == trimmedText(element)
       IN  IF Len(text) < MIN_TEXT_LENGTH THEN NoString
           ELSE IF Len(text) > MAX_TEXT_LENGTH
           THEN SubSeq(text, 1, MAX_TEXT_LENGTH) \o <<".", ".", ".">>
           ELSE text

\* faulty variant: no element has a preview key
previewKeyNeverDerived(element) == NoString

\* getPreviewCacheKey, lines 243-266: the key, NoString for null.  The key
\* is the element type followed by the trimmed identifier (the identifiers
\* here have no inner white space to collapse and are shorter than the 200
\* characters kept); the page identity is the same for all keys
getPreviewCacheKey(element) ==
  IF element.tag # "A" /\ element.tag # "BUTTON" /\ element.role # "button"
  THEN NoString
  ELSE LET identifier ==
             IF element.tag = "A"
             THEN OrElse(element.href,
                    OrElse(element.textContent, OrElse(element.ariaLabel, element.id)))
             ELSE OrElse(element.id, OrElse(element.ariaLabel, element.textContent))
       IN  IF identifier = NoString THEN NoString
           ELSE <<"preview", IF element.tag = "A" THEN "link" ELSE "button">>
                  \o Trim(identifier)

\* handleHover lines 679-696: the pipeline scheduled for the event target,
\* "image" by scheduleImageHover (recognition), "preview" by
\* schedulePreviewHover (purpose summary), "text" by scheduleTextHover (text
\* summary), "none" when the handler returns without scheduling
scheduledPipeline(target) ==
  IF target.tag = "IMG" /\ target.src # NoString THEN "image"
  ELSE IF getPreviewCacheKey(target) # NoString THEN "preview"
  ELSE IF extractTextFromElement(target) # NoString THEN "text"
  ELSE "none"

\* the elements of the page: images, links, paragraphs of 50 characters and
\* text inputs
ElementOf(e) ==
  CASE e % 4 = 1 -> [NoElement EXCEPT !.tag = "IMG", !.src = <<"s">>]
    [] e % 4 = 2 -> [NoElement EXCEPT !.tag = "A", !.href = <<"h">>]
    [] e % 4 = 3 -> [NoElement EXCEPT !.tag = "P", !.textContent = Chars(MIN_TEXT_LENGTH)]
    [] OTHER -> [NoElement EXCEPT !.tag = "INPUT"]

\* the pipeline handleHover chooses for an element of the page
KindOf(e) == scheduledPipeline(ElementOf(e))

\* the event targets handleHover is applied to: every combination of tag,
\* attributes and text, the texts being empty, one character short of
\* MIN_TEXT_LENGTH or of that length, with white space around them
Tags == {"IMG", "A", "BUTTON", "INPUT", "TEXTAREA", "SELECT", "P", "DIV", "NAV"}

Texts ==
  {Blanks(l) \o Chars(n) \o Blanks(r) :
     l \in 0..MaxPad, r \in 0..MaxPad,
     n \in {0, MIN_TEXT_LENGTH - 1, MIN_TEXT_LENGTH}}

Targets ==
  [tag : Tags, src : {NoString, <<"s">>}, role : {"", "button"},
   href : {NoString, <<"h">>}, id : {NoString, <<"i">>},
   ariaLabel : {NoString, <<"l">>}, textContent : Texts]

\* what the sendMessage callback of a hover receives: lastError set, a
\* successful response with a result, a successful one without, a response
\* with an error, or no response
HoverResponses == {"lastError", "success", "empty", "error", "none"}

\* a hover pipeline that has not started.  preview is the state of
\* dataUrlPromise; response is the response the callback got; firedAt is the
\* time at which its debounce timer fired; id numbers the pipelines in the
\* order they started; firedAttached
\* records whether the target was in the document when the debounce fired
NewHover ==
  [pc |-> "idle", target |-> 0, preview |-> "none", response |-> "",
   firedAt |-> 0, id |-> 0, firedAttached |-> FALSE]

NoShow == [target |-> 0, content |-> "", attached |-> FALSE, firedAttached |-> FALSE]

\* a showSummaryTooltip message that has not arrived: pc is the state of its
\* summarizeText request, inDocument whether its tooltip is in the document
NoFixed == [pc |-> "idle", inDocument |-> FALSE]

\* no getOrCapturePreview call has settled
\* a call of pingOffscreen that was not made yet
NoPing ==
  [pc |-> "idle", settled |-> FALSE, timer |-> FALSE, callback |-> FALSE,
   reply |-> "", reason |-> "", settlements |-> 0]

NoPreviewCall ==
  [previewKey |-> 0, readOk |-> FALSE, captureOk |-> FALSE, writeOk |-> FALSE,
   dataUrl |-> ""]

\* the content script just loaded into a page
HoverIdle ==
  /\ attached = Elements
  /\ pointer = 0
  /\ hoverTimeout = 0
  /\ timers = {}
  /\ cleared = 0
  /\ readOutcome = ""
  /\ dropped = ""
  /\ tooltips = {}
  /\ fixed = [i \in Summaries |-> NoFixed]
  /\ now = 0
  /\ classified = ""
  /\ previewCall = NoPreviewCall
  /\ ping = [p \in Pings |-> NoPing]
  /\ hover = [h \in Hovers |-> NewHover]
  /\ currentTooltip = 0
  /\ tooltipSeq = 0
  /\ autoHide = {}
  /\ mouseoutListeners = {}
  /\ summaryCache = [k \in Elements |-> Undefined]
  /\ previewCache = [k \in Elements |-> Undefined]
  /\ shown = NoShow
  /\ firings = 0

\* removeCurrentTooltip, lines 42-47: the tooltip elements left in the document
removeCurrentTooltip == {t \in tooltips : t.id # currentTooltip}

\* removeFixedSummaryTooltip, lines 49-54: getElementById finds the first
\* element with the id in document order, which is the oldest one
removeFixedSummaryTooltip ==
  LET present == {i \in Summaries : fixed[i].inDocument}
  IN  IF present = {} THEN fixed
      ELSE [fixed EXCEPT ![CHOOSE i \in present : \A j \in present : i <= j].inDocument = FALSE]

\* faulty variant: no tooltip gets an auto-dismiss timer
autoHideNeverSet(id, isProcessing) == autoHide

\* showTooltip lines 382-388: the auto-dismiss timers pending after the call
setAutoHide(id, isProcessing) ==
  IF isProcessing THEN autoHide ELSE autoHide \cup {id}

\* showTooltip, lines 361-389
showTooltip(element, content, isProcessing, rec) ==
  /\ tooltips' = removeCurrentTooltip \cup
                   {[id |-> tooltipSeq + 1, target |-> element, processing |-> isProcessing]}
  /\ fixed' = removeFixedSummaryTooltip
  /\ currentTooltip' = tooltipSeq + 1
  /\ tooltipSeq' = tooltipSeq + 1
  /\ mouseoutListeners' = mouseoutListeners \cup {element}
  /\ autoHide' = setAutoHide(tooltipSeq + 1, isProcessing)
  /\ shown' = [target |-> element, content |-> content,
               attached |-> element \in attached,
               firedAttached |-> rec.firedAttached]

NoTooltipShown == shown' = NoShow /\ UNCHANGED tooltipVars

\* a pipeline returns: its slot is free once its preview capture, if any, has
\* settled
EndHover(rec) ==
  IF rec.preview = "pending" THEN [rec EXCEPT !.pc = "capture"] ELSE NewHover

\* faulty variants: the handlers without their clearTimeout call
clearTimeoutSkippedOnOver == timers

clearTimeoutSkippedOnOut == timers

\* handleHover lines 674-677: the timers left pending
clearPendingTimer == timers \ {hoverTimeout}

\* resetHoverTimeout lines 699-704: the timers left pending
resetHoverTimeout == timers \ {hoverTimeout}

\* mouseover on an element, handleHover lines 668-697: the pending timer is
\* cleared and the timer of the element's pipeline is set
MouseOver(e) ==
  /\ e \in attached
  /\ pointer = 0
  /\ pointer' = e
  /\ cleared' = IF hoverTimeout \in timers THEN hoverTimeout ELSE 0
  /\ readOutcome' = "" /\ dropped' = ""
  /\ IF KindOf(e) = "none"
     THEN /\ hoverTimeout' = 0
          /\ timers' = clearPendingTimer
     ELSE /\ hoverTimeout' = e
          /\ timers' = clearPendingTimer \cup {e}
  /\ NoTooltipShown
  /\ UNCHANGED <<gateVars, restVars, attached, hover, cacheVars, firings>>

\* mouseout of the element under the pointer: resetHoverTimeout (lines
\* 699-704) and the once-only listeners showTooltip put on the element
\* (lines 374-380)
MouseOut ==
  /\ pointer # 0
  /\ pointer' = 0
  /\ hoverTimeout' = 0
  /\ timers' = resetHoverTimeout
  /\ cleared' = IF hoverTimeout \in timers THEN hoverTimeout ELSE 0
  /\ readOutcome' = "" /\ dropped' = ""
  /\ currentTooltip' = IF pointer \in mouseoutListeners THEN 0 ELSE currentTooltip
  /\ tooltips' = IF pointer \in mouseoutListeners THEN removeCurrentTooltip ELSE tooltips
  /\ mouseoutListeners' = mouseoutListeners \ {pointer}
  /\ shown' = NoShow
  /\ UNCHANGED <<gateVars, restVars, attached, hover, tooltipSeq, autoHide, fixed,
                 cacheVars, firings>>

\* the page removes an element from the document; no mouse event is fired
RemoveElement(e) ==
  /\ e \in attached
  /\ attached' = attached \ {e}
  /\ pointer' = IF pointer = e THEN 0 ELSE pointer
  /\ NoTooltipShown
  /\ cleared' = 0
  /\ readOutcome' = "" /\ dropped' = ""
  /\ UNCHANGED <<gateVars, restVars, timerVars, hover, cacheVars, firings>>

\* the AUTO_HIDE_DELAY timer of a tooltip, lines 382-388
AutoHideFires(t) ==
  /\ t \in autoHide
  /\ autoHide' = autoHide \ {t}
  /\ currentTooltip' = IF currentTooltip = t THEN 0 ELSE currentTooltip
  /\ tooltips' = IF currentTooltip = t THEN removeCurrentTooltip ELSE tooltips
  /\ shown' = NoShow
  /\ cleared' = 0
  /\ readOutcome' = "" /\ dropped' = ""
  /\ UNCHANGED <<gateVars, restVars, attached, pointer, timerVars, hover, tooltipSeq, fixed,
                 mouseoutListeners, cacheVars, firings>>

\* the HOVER_DELAY timer fires (lines 393-394, 449-451, 587-588): the
\* processing tooltip is shown; an image hover sends ocrImage, the others
\* start reading the summary cache
DebounceFires(h, t) ==
  /\ t \in timers
  /\ firings < MaxHovers
  /\ hover[h].pc = "idle"
  /\ \A g \in Hovers : g < h => hover[g].pc # "idle"
  /\ hover' = [hover EXCEPT ![h] =
                 [NewHover EXCEPT
                    !.pc = IF KindOf(t) = "image" THEN "response" ELSE "cacheRead",
                    !.target = t,
                    !.firedAt = now,
                    !.id = firings + 1,
                    !.firedAttached = t \in attached]]
  /\ showTooltip(t, "processing", TRUE, hover'[h])
  /\ timers' = timers \ {t}
  /\ hoverTimeout' = IF hoverTimeout = t THEN 0 ELSE hoverTimeout
  /\ cleared' = 0
  /\ readOutcome' = "" /\ dropped' = ""
  /\ firings' = firings + 1
  /\ UNCHANGED <<gateVars, restVars, attached, pointer, cacheVars>>

\* faulty variants: entries that never expire, entries that always have
summaryNeverExpires(timestamp) == FALSE

summaryAlwaysExpired(timestamp) == TRUE

previewNeverExpires(timestamp) == FALSE

\* getCachedSummary line 208, getCachedPreview line 280: isExpired
summaryExpired(timestamp) == now - timestamp > SUMMARY_CACHE_DURATION_MS

previewExpired(timestamp) == now - timestamp > PREVIEW_CACHE_DURATION_MS

\* getCachedSummary, lines 196-221, when chrome.storage.local.get succeeds:
\* what the promise resolves to and the cache it leaves.  The removal of an
\* expired entry is issued before the promise resolves, so it precedes
\* every storage operation of the continuation
getCachedSummary(cache, summaryKey) ==
  LET entry == cache[summaryKey]
  IN  IF entry = Undefined THEN [summary |-> "null", cache |-> cache]
      ELSE IF summaryExpired(entry)
      THEN [summary |-> "null", cache |-> [cache EXCEPT ![summaryKey] = Undefined]]
      ELSE [summary |-> "value", cache |-> cache]

\* getCachedPreview, lines 268-293, when chrome.storage.local.get succeeds
getCachedPreview(cache, previewKey) ==
  LET entry == cache[previewKey]
  IN  IF entry = Undefined THEN [dataUrl |-> "null", cache |-> cache]
      ELSE IF previewExpired(entry)
      THEN [dataUrl |-> "null", cache |-> [cache EXCEPT ![previewKey] = Undefined]]
      ELSE [dataUrl |-> "value", cache |-> cache]

\* cacheSummary lines 223-241, cachePreview lines 295-313, when
\* chrome.storage.local.set succeeds: the entry is stamped with Date.now()
cacheSummary(cache, summaryKey) == [cache EXCEPT ![summaryKey] = now]

cachePreview(cache, previewKey) == [cache EXCEPT ![previewKey] = now]

\* what a read of the summary cache can deliver for a key: a rejection, or
\* what getCachedSummary resolves to
CacheReads(key) ==
  {"fails",
   IF getCachedSummary(summaryCache, key).summary = "value" THEN "hit" ELSE "miss"}

\* getCachedSummary has settled: the continuation of scheduleTextHover (lines
\* 599-610 and 692) or of schedulePreviewHover (lines 462-493).  sent tells
\* whether chrome.runtime.sendMessage could be called; when it throws, the
\* catch at the end of the pipeline shows an error
\* faulty variant: a cached summary is not used
cacheHitIgnored(outcome) == FALSE

\* lines 470 and 604: if (summary), the summary read is shown and the
\* pipeline returns before sendMessage
servedFromCache(outcome) == outcome = "hit"

CacheRead(h, outcome, sent) ==
  LET rec == hover[h]
      target == rec.target
      after == getCachedSummary(summaryCache, target).cache
      started == IF KindOf(target) = "preview"
                 THEN [rec EXCEPT !.preview = "pending"] ELSE rec
  IN  /\ rec.pc = "cacheRead"
      /\ outcome \in CacheReads(target)
      /\ summaryCache' = IF outcome = "fails" THEN summaryCache ELSE after
      /\ readOutcome' = IF outcome = "miss" /\ after # summaryCache
                        THEN "expired" ELSE outcome
      /\ dropped' = ""
      /\ IF target \notin attached THEN
           /\ hover' = [hover EXCEPT ![h] = EndHover(started)]
           /\ NoTooltipShown
         ELSE IF servedFromCache(outcome) /\ KindOf(target) = "text" THEN
           /\ hover' = [hover EXCEPT ![h] = EndHover(started)]
           /\ showTooltip(target, "cached", FALSE, rec)
         ELSE IF servedFromCache(outcome) THEN
           /\ hover' = [hover EXCEPT ![h] = [started EXCEPT !.pc = "awaitPreview"]]
           /\ NoTooltipShown
         ELSE IF sent THEN
           /\ hover' = [hover EXCEPT ![h] = [started EXCEPT !.pc = "response"]]
           /\ NoTooltipShown
         ELSE
           /\ hover' = [hover EXCEPT ![h] = EndHover(started)]
           /\ showTooltip(target, "error", FALSE, rec)
      /\ cleared' = 0
      /\ UNCHANGED <<gateVars, restVars, attached, pointer, timerVars, previewCache, firings>>

\* getOrCapturePreview settles, lines 341-359: with the cached preview, with
\* a capture that was cached, or with null when the capture or the write of
\* the cache failed.  readOk tells whether the read of the cache succeeded;
\* a fresh entry that was read is returned
PreviewSettles(h, outcome, readOk) ==
  LET rec == hover[h]
      settled == [rec EXCEPT
                    !.preview = IF outcome \in {"cached", "captured"} THEN "url" ELSE "null"]
      cached == getCachedPreview(previewCache, rec.target)
      after == IF readOk THEN cached.cache ELSE previewCache
  IN  /\ rec.preview = "pending"
      /\ (outcome = "cached") = (readOk /\ cached.dataUrl = "value")
      /\ previewCache' =
           IF outcome = "captured" THEN cachePreview(after, rec.target) ELSE after
      /\ hover' = [hover EXCEPT ![h] = IF rec.pc = "capture" THEN NewHover ELSE settled]
      /\ NoTooltipShown
      /\ cleared' = 0
      /\ readOutcome' = "" /\ dropped' = ""
      /\ UNCHANGED <<gateVars, restVars, attached, pointer, timerVars, summaryCache, firings>>

PreviewOutcomes == {"cached", "captured", "uncached", "failed"}

\* the callback of sendMessage runs: lines 402-436 (image), 494-497
\* (preview), 615-657 (text)
\* faulty variant: the callback does not look for its target
containsNeverTested(target) == FALSE

\* lines 495 and 616: if (!document.body.contains(target)) return
targetGone(target) == target \notin attached

ResponseArrives(h, response) ==
  LET rec == hover[h]
      target == rec.target
      kind == KindOf(target)
  IN  /\ rec.pc = "response"
      /\ IF kind = "image" THEN
           /\ hover' = [hover EXCEPT ![h] = EndHover(rec)]
           /\ showTooltip(target, IF response = "success" \/ response = "empty"
                                  THEN "result" ELSE "error", FALSE, rec)
         ELSE IF targetGone(target) THEN
           /\ hover' = [hover EXCEPT ![h] = EndHover(rec)]
           /\ NoTooltipShown
         ELSE IF kind = "preview" THEN
           /\ hover' = [hover EXCEPT ![h] =
                          [rec EXCEPT !.pc = "awaitPreview", !.response = response]]
           /\ NoTooltipShown
         ELSE IF response = "success" THEN
           /\ hover' = [hover EXCEPT ![h] =
                          [rec EXCEPT !.pc = "cacheWrite", !.response = response]]
           /\ NoTooltipShown
         ELSE
           /\ hover' = [hover EXCEPT ![h] = EndHover(rec)]
           /\ showTooltip(target, "error", FALSE, rec)
      /\ cleared' = 0
      /\ readOutcome' = ""
      /\ dropped' = IF kind # "image" /\ target \notin attached /\ response = "success"
                    THEN "result" ELSE ""
      /\ UNCHANGED <<gateVars, restVars, attached, pointer, timerVars, cacheVars, firings>>

\* await dataUrlPromise has returned in schedulePreviewHover: lines 471-484
\* with a cached summary (response is ""), lines 499-571 in the callback
AwaitPreview(h) ==
  LET rec == hover[h]
  IN  /\ rec.pc = "awaitPreview"
      /\ rec.preview \in {"url", "null"}
      /\ IF rec.response = "success" THEN
           /\ hover' = [hover EXCEPT ![h] = [rec EXCEPT !.pc = "cacheWrite"]]
           /\ NoTooltipShown
         ELSE
           /\ hover' = [hover EXCEPT ![h] = NewHover]
           /\ showTooltip(rec.target,
                          CASE rec.response = "" -> "cached"
                            [] rec.response \in {"lastError", "error"} -> "error"
                            [] OTHER -> "fallback",
                          FALSE, rec)
      /\ cleared' = 0
      /\ readOutcome' = "" /\ dropped' = ""
      /\ UNCHANGED <<gateVars, restVars, attached, pointer, timerVars, cacheVars, firings>>

\* faulty variant: a failed write of the cache ends the callback
CacheWriteFatal(h, ok) ==
  LET rec == hover[h]
  IN  /\ rec.pc = "cacheWrite"
      /\ summaryCache' = IF ok THEN cacheSummary(summaryCache, rec.target) ELSE summaryCache
      /\ hover' = [hover EXCEPT ![h] = NewHover]
      /\ IF ok THEN showTooltip(rec.target, "result", FALSE, rec) ELSE NoTooltipShown
      /\ cleared' = 0
      /\ readOutcome' = "" /\ dropped' = ""
      /\ UNCHANGED <<gateVars, restVars, attached, pointer, timerVars, previewCache, firings>>

\* cacheSummary has settled, lines 520-538 and 629-640: a failure is logged,
\* the result is shown either way
CacheWrite(h, ok) ==
  LET rec == hover[h]
  IN  /\ rec.pc = "cacheWrite"
      /\ summaryCache' = IF ok THEN cacheSummary(summaryCache, rec.target) ELSE summaryCache
      /\ hover' = [hover EXCEPT ![h] = NewHover]
      /\ showTooltip(rec.target, "result", FALSE, rec)
      /\ cleared' = 0
      /\ readOutcome' = "" /\ dropped' = ""
      /\ UNCHANGED <<gateVars, restVars, attached, pointer, timerVars, previewCache, firings>>

(***************************************************************************)
(* The context-menu summary, the showSummaryTooltip listener of lines      *)
(* 709-757.                                                                *)
(***************************************************************************)
\* the message arrives, lines 710-741 and 756: the tooltip is created and
\* appended to the document, summarizeText is sent
ShowSummaryTooltip(i) ==
  /\ fixed[i].pc = "idle"
  /\ \A j \in Summaries : j < i => fixed[j].pc # "idle"
  /\ fixed' = [fixed EXCEPT ![i] = [pc |-> "waiting", inDocument |-> TRUE]]
  /\ shown' = NoShow
  /\ cleared' = 0
  /\ readOutcome' = "" /\ dropped' = ""
  /\ UNCHANGED <<gateVars, restVars, attached, pointer, timerVars, hover, currentTooltip,
                 tooltipSeq, autoHide, mouseoutListeners, tooltips, cacheVars, firings>>

\* the callback of lines 742-754: whatever the response, the content of the
\* tooltip is replaced and the AUTO_HIDE_DELAY timer of its removal is set
SummaryResponseArrives(i) ==
  /\ fixed[i].pc = "waiting"
  /\ fixed' = [fixed EXCEPT ![i].pc = "timer"]
  /\ shown' = NoShow
  /\ cleared' = 0
  /\ readOutcome' = "" /\ dropped' = ""
  /\ UNCHANGED <<gateVars, restVars, attached, pointer, timerVars, hover, currentTooltip,
                 tooltipSeq, autoHide, mouseoutListeners, tooltips, cacheVars, firings>>

\* the timer of lines 744 and 753: fixedTooltip.remove()
SummaryRemoveFires(i) ==
  /\ fixed[i].pc = "timer"
  /\ fixed' = [fixed EXCEPT ![i] = [pc |-> "done", inDocument |-> FALSE]]
  /\ shown' = NoShow
  /\ cleared' = 0
  /\ readOutcome' = "" /\ dropped' = ""
  /\ UNCHANGED <<gateVars, restVars, attached, pointer, timerVars, hover, currentTooltip,
                 tooltipSeq, autoHide, mouseoutListeners, tooltips, cacheVars, firings>>

(***************************************************************************)
(* SpecHover: the content script on a page, its requests answered in any   *)
(* of the ways a response can arrive.                                      *)
(***************************************************************************)
InitHover ==
  /\ llmApiKey = NoString
  /\ freeTooltipsUsed = Undefined
  /\ subscriptionStatus = ""
  /\ DEFAULT_FREE_API_KEY = DevKey
  /\ GOOGLE_CLIENT_ID = ""
  /\ syncQueue = <<>>
  /\ call = [c \in Calls |-> NewCall]
  /\ last = NewCall
  /\ offscreenDoc = FALSE
  /\ authPending = FALSE
  /\ served = [i \in 1..MaxHovers |-> {}]
  /\ authResult = ""
  /\ requests = 0
  /\ granted = 0
  /\ installs = 0
  /\ HoverIdle
  /\ candidate = NoElement

NextHover ==
  \/ \E e \in Elements : MouseOver(e)
  \/ MouseOut
  \/ \E e \in Elements : RemoveElement(e)
  \/ \E t \in Tooltips : AutoHideFires(t)
  \/ \E h \in Hovers, t \in Elements : DebounceFires(h, t)
  \/ \E h \in Hovers, outcome \in {"hit", "miss", "fails"}, sent \in BOOLEAN :
       CacheRead(h, outcome, sent)
  \/ \E h \in Hovers, outcome \in PreviewOutcomes, readOk \in BOOLEAN :
       PreviewSettles(h, outcome, readOk)
  \/ \E h \in Hovers, response \in HoverResponses : ResponseArrives(h, response)
  \/ \E h \in Hovers : AwaitPreview(h)
  \/ \E h \in Hovers, ok \in BOOLEAN : CacheWrite(h, ok)

SpecHover == InitHover /\ [][NextHover]_vars

(***************************************************************************)
(* SpecClassify: handleHover's choice of pipeline for one event target.    *)
(***************************************************************************)
InitClassify ==
  /\ llmApiKey = NoString
  /\ freeTooltipsUsed = Undefined
  /\ subscriptionStatus = ""
  /\ DEFAULT_FREE_API_KEY = DevKey
  /\ GOOGLE_CLIENT_ID = ""
  /\ syncQueue = <<>>
  /\ call = [c \in Calls |-> NewCall]
  /\ last = NewCall
  /\ offscreenDoc = FALSE
  /\ authPending = FALSE
  /\ served = [i \in 1..MaxHovers |-> {}]
  /\ authResult = ""
  /\ requests = 0
  /\ granted = 0
  /\ installs = 0
  /\ HoverIdle
  /\ candidate \in Targets

\* handleHover lines 679-696 on the event target
HandleHover ==
  /\ classified = ""
  /\ classified' = scheduledPipeline(candidate)
  /\ UNCHANGED <<gateVars, now, candidate, previewCall, ping, attached, pointer, timerVars,
                 cleared, readOutcome, dropped, hover, tooltipVars, cacheVars, shown,
                 firings>>

NextClassify == HandleHover

SpecClassify == InitClassify /\ [][NextClassify]_vars

(***************************************************************************)
(* SpecCache: hovers on a page whose elements stay in the document, over   *)
(* a time span in which cache entries expire.  The other specifications    *)
(* cover a span too short for that: their clock stands still.              *)
(***************************************************************************)
\* time passes
Tick ==
  /\ now < MaxTime
  /\ now' = now + 1
  /\ shown' = NoShow
  /\ cleared' = 0
  /\ readOutcome' = "" /\ dropped' = ""
  /\ UNCHANGED <<gateVars, candidate, classified, previewCall, ping, attached, pointer,
                 timerVars, hover, tooltipVars, cacheVars, firings>>

NextCache ==
  \/ \E e \in Elements : MouseOver(e)
  \/ MouseOut
  \/ \E h \in Hovers, t \in Elements : DebounceFires(h, t)
  \/ \E h \in Hovers, outcome \in {"hit", "miss", "fails"}, sent \in BOOLEAN :
       CacheRead(h, outcome, sent)
  \/ \E h \in Hovers, outcome \in PreviewOutcomes, readOk \in BOOLEAN :
       PreviewSettles(h, outcome, readOk)
  \/ \E h \in Hovers, response \in HoverResponses : ResponseArrives(h, response)
  \/ \E h \in Hovers : AwaitPreview(h)
  \/ \E h \in Hovers, ok \in BOOLEAN : CacheWrite(h, ok)
  \/ Tick

SpecCache == InitHover /\ [][NextCache]_vars

(***************************************************************************)
(* SpecPage: hovers and context-menu summaries on a page whose elements    *)
(* stay in the document.                                                   *)
(***************************************************************************)
NextPage ==
  \/ \E e \in Elements : MouseOver(e)
  \/ MouseOut
  \/ \E t \in Tooltips : AutoHideFires(t)
  \/ \E h \in Hovers, t \in Elements : DebounceFires(h, t)
  \/ \E h \in Hovers, outcome \in {"hit", "miss", "fails"}, sent \in BOOLEAN :
       CacheRead(h, outcome, sent)
  \/ \E h \in Hovers, outcome \in PreviewOutcomes, readOk \in BOOLEAN :
       PreviewSettles(h, outcome, readOk)
  \/ \E h \in Hovers, response \in HoverResponses : ResponseArrives(h, response)
  \/ \E h \in Hovers : AwaitPreview(h)
  \/ \E h \in Hovers, ok \in BOOLEAN : CacheWrite(h, ok)
  \/ \E i \in Summaries : ShowSummaryTooltip(i)
  \/ \E i \in Summaries : SummaryResponseArrives(i)
  \/ \E i \in Summaries : SummaryRemoveFires(i)

SpecPage == InitHover /\ [][NextPage]_vars

(***************************************************************************)
(* Spec: the gate.  Concurrent handleRequest invocations up to the point   *)
(* where they are answered (denial) or leave resolveUsageAndApiKey         *)
(* (grant), install-time initialization and the popup.                     *)
(***************************************************************************)
Init ==
  /\ llmApiKey = NoString
  /\ freeTooltipsUsed = Undefined
  /\ subscriptionStatus = ""
  /\ DEFAULT_FREE_API_KEY \in {NoString, DevKey}
  /\ GOOGLE_CLIENT_ID \in {"", "client-id"}
  /\ syncQueue = <<>>
  /\ call = [c \in Calls |-> NewCall]
  /\ last = NewCall
  /\ offscreenDoc = FALSE
  /\ authPending = FALSE
  /\ served = [i \in 1..MaxHovers |-> {}]
  /\ authResult = ""
  /\ requests = 0
  /\ granted = 0
  /\ installs = 0
  /\ HoverIdle
  /\ candidate = NoElement

Next ==
  \/ \E c \in Calls, a \in Actions : ReceiveMessage(c, a)
  \/ \E c \in Calls : ResolveRead(c)
  \/ \E c \in Calls : ResolveReadFails(c)
  \/ \E c \in Calls : ResolveWrite(c)
  \/ \E c \in Calls : Dispatched(c)
  \/ OnInstalled
  \/ InitRead
  \/ InitReadFails
  \/ InitWrite
  \/ \E input \in KeyInputs : SaveKey(input)
  \/ StartGoogleUpgrade
  \/ \E outcome \in AuthOutcomes : AuthFlowReturns(outcome)

Spec == Init /\ [][Next]_vars

(***************************************************************************)
(* SpecBroker: one handleRequest invocation from the message to the        *)
(* response, starting from a stored UsageState the gate can reach.         *)
(***************************************************************************)
BrokerStoredStates ==
  {<<NoString, Undefined, "">>, <<NoString, Undefined, "paid">>,
   <<<<"k">>, Undefined, "custom">>, <<<<"k">>, 0, "paid">>}
  \cup {<<NoString, u, "free">> : u \in 0..FREE_TIER_LIMIT}

InitBroker ==
  /\ \E stored \in BrokerStoredStates :
       /\ llmApiKey = stored[1]
       /\ freeTooltipsUsed = stored[2]
       /\ subscriptionStatus = stored[3]
  /\ DEFAULT_FREE_API_KEY \in {NoString, DevKey}
  /\ GOOGLE_CLIENT_ID = ""
  /\ syncQueue = <<>>
  /\ call = [c \in Calls |-> NewCall]
  /\ last = NewCall
  /\ offscreenDoc \in BOOLEAN
  /\ authPending = FALSE
  /\ served = [i \in 1..MaxHovers |-> {}]
  /\ authResult = ""
  /\ requests = MaxRequests - 1
  /\ granted = 0
  /\ installs = MaxInstalls
  /\ HoverIdle
  /\ candidate = NoElement

NextBroker ==
  \/ \E c \in Calls, a \in Actions : ReceiveMessage(c, a)
  \/ \E c \in Calls : ResolveRead(c)
  \/ \E c \in Calls : ResolveReadFails(c)
  \/ \E c \in Calls : ResolveWrite(c)
  \/ \E c \in Calls : EnsureAttempt(c)
  \/ \E c \in Calls : PingOk(c)
  \/ \E c \in Calls : PingFails(c)
  \/ \E c \in Calls : ProcessorUnreachable(c)
  \/ \E c \in Calls : ProcessorSilent(c)
  \/ \E c \in Calls, ok \in BOOLEAN : ProcessorReplies(c, ok)

SpecBroker == InitBroker /\ [][NextBroker]_vars

(***************************************************************************)
(* content.ts, lines 421-424, 542-545, 644-647 and 743-746: the denial     *)
(* tooltip carries the "Limit reached" hint exactly for this error code.   *)
(***************************************************************************)
upgradeHint(response) == response.errorCode = "FREE_TIER_EXHAUSTED"

(***************************************************************************)
(* Properties of the gate.                                                 *)
(*                                                                         *)
(* A record of an invocation (a slot of call, or last) is decided once     *)
(* resolveUsageAndApiKey has read the stored data; it is past the gate     *)
(* when resolveUsageAndApiKey has returned a proceed decision.             *)
(***************************************************************************)
Decided(r) == r.pc \notin {"idle", "get"} /\ r.apiResolution # NoResolution

PastGate(r) == Decided(r) /\ r.pc \in {"ensure", "ping", "process", "dispatched"}

Denied(r, code) ==
  /\ Decided(r)
  /\ r.pc = "done"
  /\ \A resp \in r.response : ~resp.success /\ resp.errorCode = code
  /\ r.response # {}

Records == {call[c] : c \in Calls} \cup {last}

\* the data read shows plan Free without a custom key
ReadFree(r) ==
  /\ r.data.llmApiKey = NoString
  /\ r.data.subscriptionStatus \in {"", "free"}

Stored == IF freeTooltipsUsed = Undefined THEN 0 ELSE freeTooltipsUsed

\* C1: on plan Free with a fallback key configured and no custom key, a
\* summarizeText request that reads freeTooltipsUsed = FREE_TIER_LIMIT - 1 is
\* authorized, has stored FREE_TIER_LIMIT and reports 0 remaining; a request of
\* either kind that reads FREE_TIER_LIMIT (or more) is denied with
\* FREE_TIER_EXHAUSTED, reports 0 remaining and writes nothing.
C1_LastFreeUseThenExhausted ==
  \A r \in Records :
    (Decided(r) /\ r.pc # "set" /\ ReadFree(r) /\ DEFAULT_FREE_API_KEY # NoString) =>
      /\ (UsedOf(r.data) = FREE_TIER_LIMIT - 1 /\ r.action = "summarizeText") =>
           /\ PastGate(r)
           /\ r.wrote = FREE_TIER_LIMIT
           /\ r.apiResolution.usageInfo.freeTooltipsUsed = FREE_TIER_LIMIT
           /\ r.apiResolution.usageInfo.freeTooltipsRemaining = 0
           /\ r.apiKeySent = DEFAULT_FREE_API_KEY
      /\ UsedOf(r.data) >= FREE_TIER_LIMIT =>
           /\ Denied(r, "FREE_TIER_EXHAUSTED")
           /\ r.wrote = Undefined
           /\ r.apiResolution.newUsedCount = Undefined
           /\ r.apiResolution.usageInfo.freeTooltipsRemaining = 0

\* the request after the last free one has just been denied, the counter still
\* at the limit
C1_Witness ==
  /\ Denied(last, "FREE_TIER_EXHAUSTED")
  /\ ReadFree(last)
  /\ DEFAULT_FREE_API_KEY # NoString
  /\ last.data.freeTooltipsUsed = FREE_TIER_LIMIT
  /\ freeTooltipsUsed = FREE_TIER_LIMIT
  /\ granted = 1

\* C2: with concurrent authorize calls on plan Free and nothing else writing
\* the counter, every free grant is counted (stored counter = number of
\* grants, starting from 0) and no more than FREE_TIER_LIMIT are granted.
C2_NoLostUpdate ==
  installs = 0 => (Stored = granted /\ granted <= FREE_TIER_LIMIT)

\* C3: an invocation that left resolveUsageAndApiKey with a free grant has had
\* its storageSyncSet served, and the snapshot it carries reports the value
\* that was written.
C3_WriteBeforeDecision ==
  \A r \in Records :
    (PastGate(r) /\ r.apiResolution.newUsedCount # Undefined) =>
      /\ r.wrote # Undefined
      /\ r.wrote = r.apiResolution.usageInfo.freeTooltipsUsed
      /\ r.apiResolution.usageInfo.plan = "free"

\* a free grant has just been returned and the store holds what it reports
C3_Witness ==
  \E c \in Calls :
    /\ call[c].pc = "ensure"
    /\ call[c].apiResolution.newUsedCount # Undefined
    /\ call[c].wrote = call[c].apiResolution.usageInfo.freeTooltipsUsed
    /\ freeTooltipsUsed = call[c].wrote

\* C4: the stored freeTooltipsUsed never decreases from one state to the next
\* (a key never written counts as below 0).
C4_UsedNeverDecreases == [][freeTooltipsUsed' >= freeTooltipsUsed]_vars

\* what C5 says of the invocations: one that read a non-empty llmApiKey
\* proceeds, whatever the action and the counter, sends that key and neither
\* asks for nor performs a write of the counter
C5_KeyHoldersProceed ==
  \A r \in Records :
    (Decided(r) /\ r.data.llmApiKey # NoString) =>
      /\ PastGate(r)
      /\ r.apiResolution.error = ""
      /\ r.apiKeySent = r.data.llmApiKey
      /\ r.apiResolution.newUsedCount = Undefined
      /\ r.wrote = Undefined

\* C5: a step that stores a new non-empty llmApiKey sets the plan to 'custom';
\* every authorize call that then reads a non-empty key proceeds with that
\* key attached and leaves freeTooltipsUsed alone, for both actions and any
\* value of the counter.
C5_CustomKeyBypassesMeter ==
  [][/\ (llmApiKey' # llmApiKey =>
           llmApiKey' # NoString /\ subscriptionStatus' = "custom")
     /\ C5_KeyHoldersProceed']_vars

\* a request made with the counter at the limit has gone through with the
\* saved key
C5_Witness ==
  /\ last.pc = "dispatched"
  /\ last.data.llmApiKey = <<"k">>
  /\ last.data.subscriptionStatus = "custom"
  /\ last.data.freeTooltipsUsed >= FREE_TIER_LIMIT
  /\ last.apiKeySent = <<"k">>
  /\ freeTooltipsUsed = last.data.freeTooltipsUsed

\* what C6 says of the invocations: a summarizeText call that read plan
\* 'paid' and no custom key is denied with API_KEY_REQUIRED and writes
\* nothing
C6_PaidNeedsKey ==
  \A r \in Records :
    (/\ Decided(r)
     /\ r.action = "summarizeText"
     /\ r.data.subscriptionStatus = "paid"
     /\ r.data.llmApiKey = NoString) =>
      /\ Denied(r, "API_KEY_REQUIRED")
      /\ r.apiResolution.newUsedCount = Undefined
      /\ r.wrote = Undefined

\* C6: the identity flow ending with an access token leaves subscriptionStatus
\* = 'paid' (and the flow changes the status in no other way); a summarizeText
\* call that reads 'paid' with no custom key is denied with API_KEY_REQUIRED,
\* never proceeds and does not increment freeTooltipsUsed.
C6_PaidWithoutKeyDenied ==
  [][/\ (authPending /\ ~authPending' /\ subscriptionStatus' # subscriptionStatus =>
           subscriptionStatus' = "paid")
     /\ C6_PaidNeedsKey']_vars

\* after an upgrade, a summarizeText request has just been denied for want of
\* a key, the counter untouched
C6_Witness ==
  /\ Denied(last, "API_KEY_REQUIRED")
  /\ last.action = "summarizeText"
  /\ last.data.subscriptionStatus = "paid"
  /\ subscriptionStatus = "paid"
  /\ llmApiKey = NoString
  /\ freeTooltipsUsed = last.data.freeTooltipsUsed

\* C7 as stated: subscriptionStatus is 'custom' exactly when a non-empty
\* llmApiKey is stored.
C7_CustomIffKey == (subscriptionStatus = "custom") <=> (llmApiKey # NoString)

\* C7, the half that holds: subscriptionStatus = 'custom' only with a
\* non-empty llmApiKey stored.
C7_CustomImpliesKey == subscriptionStatus = "custom" => llmApiKey # NoString

\* a key has been saved and the plan is 'custom'
C7_Witness == subscriptionStatus = "custom" /\ llmApiKey = <<"k">>

\* C8: a summarizeText request on plan Free, below the limit, denied for want
\* of a fallback key, is answered with an error code other than the one of
\* free-tier exhaustion, so that the content script shows no "Limit reached"
\* hint.
C8_NoFallbackHasOwnReason ==
  (/\ Decided(last)
   /\ last.pc = "done"
   /\ last.action = "summarizeText"
   /\ ReadFree(last)
   /\ UsedOf(last.data) < FREE_TIER_LIMIT
   /\ DEFAULT_FREE_API_KEY = NoString) =>
    \A resp \in last.response :
      resp.errorCode # "FREE_TIER_EXHAUSTED" /\ ~upgradeHint(resp)

\* C9: every response sent for a summarizeText or ocrImage message carries a
\* usageInfo snapshot with plan, freeTierLimit, freeTooltipsRemaining and
\* freeTooltipsUsed.
C9_ResponsesCarryUsageInfo ==
  \A resp \in last.response :
    /\ resp.usageInfo # {}
    /\ \A u \in resp.usageInfo :
         u.plan # "" /\ u.freeTierLimit = FREE_TIER_LIMIT

\* C10: a tooltip rendered by an asynchronous continuation of a hover (after
\* the cache read, the response, the preview capture or the cache write) whose
\* target was in the document when the debounce fired is rendered for a target
\* that is still in the document.
C10_StaleTargetRendersNothing ==
  (shown # NoShow /\ shown.content # "processing" /\ shown.firedAttached) =>
    shown.attached

(***************************************************************************)
(* Properties of the hover pipelines.                                      *)
(***************************************************************************)
\* C11: when the response to a request sent for a hover on A arrives while A
\* is in the document and the pointer is over another element B, the response
\* is discarded: no tooltip is rendered and the tooltips in the document (B's
\* among them) stay as they are.
C11_SupersededResponseDiscarded ==
  [][\A h \in Hovers :
       (/\ hover[h].pc = "response"
        /\ hover'[h].pc # "response"
        /\ hover[h].target \in attached
        /\ pointer \notin {0, hover[h].target}) =>
         (shown' = NoShow /\ tooltips' = tooltips)]_vars

\* C12: at most one tooltip element, hover tooltip or context-menu summary
\* tooltip, is in the document.
C12_AtMostOneTooltip ==
  Cardinality(tooltips) + Cardinality({i \in Summaries : fixed[i].inDocument}) <= 1


\* C13: a pointer-out that arrives after a pointer-over and before the 500 ms
\* debounce timer fires cancels the timer, and that hover does no pipeline
\* work.  In every step in which the pointer leaves an attached element whose
\* timer is pending, no timer is pending afterwards, no pipeline starts, no
\* request is sent, no cache is read or written and no tooltip is shown; and
\* a pipeline only ever starts from a timer that is pending, a timer of an
\* attached element being pending only while the pointer is on it.
C13_PointerOutCancelsDebounce ==
  [][/\ (/\ pointer # 0
         /\ pointer' = 0
         /\ pointer \in attached'
         /\ pointer \in timers) =>
          (/\ timers' = {}
           /\ hoverTimeout' = 0
           /\ hover' = hover
           /\ firings' = firings
           /\ cacheVars' = cacheVars
           /\ shown' = NoShow
           /\ tooltips' \subseteq tooltips)
     /\ \A h \in Hovers :
          (hover[h].pc = "idle" /\ hover'[h].pc # "idle") =>
            (hover'[h].target \in timers /\ hover'[h].target \notin timers')
     /\ \A t \in timers' : t \in attached' => pointer' = t]_vars

\* the pointer has just left an element before its timer fired: the timer
\* was cancelled and no pipeline has ever started
C13_Witness ==
  /\ cleared # 0
  /\ pointer = 0
  /\ cleared \in attached
  /\ timers = {}
  /\ firings = 0
  /\ \A h \in Hovers : hover[h].pc = "idle"


\* C14: at most one debounce timer is pending at any time, and it belongs to
\* the most recently hovered target: it is the timer hoverTimeout names, the
\* pointer is on its target whenever that target is still in the document,
\* and after a pointer-over on an element that yields no pipeline no timer
\* is pending at all, the previous one having been cleared.
C14_SinglePendingTimer ==
  /\ Cardinality(timers) <= 1
  /\ timers \subseteq {hoverTimeout}
  /\ \A t \in timers : t \in attached => pointer = t
  /\ (pointer # 0 /\ KindOf(pointer) = "none") => timers = {}

\* a pointer-over on an element without a pipeline has just cleared the
\* timer that was pending for the previously hovered target
C14_Witness ==
  /\ pointer # 0
  /\ KindOf(pointer) = "none"
  /\ cleared \notin {0, pointer}
  /\ timers = {}


C17_CacheHitRendersAtOnce ==
  [][\A h \in Hovers :
       (/\ hover[h].pc = "cacheRead"
        /\ hover'[h].pc # "cacheRead"
        /\ hover[h].target \in attached
        /\ readOutcome' = "hit") =>
         (shown'.target = hover[h].target /\ shown'.content = "cached")]_vars


\* C18: every non-processing tooltip shown by showTooltip is removed from
\* the document by its auto-dismiss timer, by pointer-out of the hovered
\* element or by replacement with a new tooltip.  As long as such a tooltip
\* is in the document it is the current tooltip and its 5 s timer is
\* pending; the step in which that timer fires removes it, and so does a
\* pointer-out of its target and every later showTooltip call.
C18_ResultTooltipsAreDismissed ==
  [][\A t \in tooltips :
       ~t.processing =>
         /\ t.id = currentTooltip
         /\ t.id \in autoHide
         /\ t.id \notin autoHide' => t \notin tooltips'
         /\ (pointer = t.target /\ pointer' = 0 /\ pointer \in attached') =>
              t \notin tooltips'
         /\ shown' # NoShow => t \notin tooltips']_vars

\* the auto-dismiss timer of a result tooltip has removed it: the pointer
\* never left the element, whose mouseout listener is still waiting, and no
\* pipeline is running
C18_Witness ==
  /\ tooltips = {}
  /\ autoHide = {}
  /\ tooltipSeq = 2
  /\ pointer # 0
  /\ pointer \in mouseoutListeners
  /\ \A h \in Hovers : hover[h].pc = "idle"


\* C19: for every element whose trimmed text is shorter than 50 characters
\* handleHover schedules no text summary; for an element of a recognised
\* text-bearing tag whose trimmed text has 50 characters or more, and that is
\* neither an image nor an interactive control, it schedules one.
C19_TextSummaryNeedsFiftyCharacters ==
  classified # "" =>
    LET length == Len(Trim(candidate.textContent))
        interactive == \/ candidate.tag \in {"A", "BUTTON", "INPUT", "TEXTAREA", "SELECT"}
                       \/ candidate.role = "button"
    IN  /\ length < MIN_TEXT_LENGTH => classified # "text"
        /\ (/\ length >= MIN_TEXT_LENGTH
            /\ candidate.tag \in textContainers
            /\ candidate.tag # "IMG"
            /\ ~interactive) => classified = "text"

\* handleHover has scheduled nothing for a paragraph whose text has 49
\* characters, and 50 with the white space around them
C19_Witness ==
  /\ classified = "none"
  /\ candidate.tag = "P"
  /\ candidate.role = ""
  /\ Len(candidate.textContent) >= MIN_TEXT_LENGTH
  /\ Len(Trim(candidate.textContent)) = MIN_TEXT_LENGTH - 1

\* C20: each pointer-over schedules at most one pipeline, chosen by strict
\* priority: an image with a source yields recognition; otherwise a link, a
\* button or an element with role=button yields a purpose summary; otherwise
\* a qualifying text element yields a text summary; an element of a
\* higher-priority kind never falls through to a lower one.
C20_StrictPriority ==
  classified # "" =>
    LET image == candidate.tag = "IMG" /\ candidate.src # NoString
        control == candidate.tag \in {"A", "BUTTON"} \/ candidate.role = "button"
        qualifying == /\ candidate.tag \in textContainers
                      /\ Len(Trim(candidate.textContent)) >= MIN_TEXT_LENGTH
    IN  /\ classified \in {"image", "preview", "text", "none"}
        /\ image => classified = "image"
        /\ (~image /\ control) => classified = "preview"
        /\ (~image /\ ~control /\ qualifying) => classified = "text"
        /\ (~image /\ ~control /\ ~qualifying) => classified = "none"


\* C20 as the code has it: a link, a button or an element with role=button
\* yields a purpose summary only when a preview key can be derived for it,
\* that is when one of its href (links only), text, aria-label and id is not
\* empty; without any of them it yields no pipeline at all.  The rest of the
\* priority order is as stated.
C20_PriorityAmongKeyedControls ==
  classified # "" =>
    LET image == candidate.tag = "IMG" /\ candidate.src # NoString
        control == candidate.tag \in {"A", "BUTTON"} \/ candidate.role = "button"
        keyed == \/ candidate.tag = "A" /\ candidate.href # NoString
                 \/ candidate.textContent # NoString
                 \/ candidate.ariaLabel # NoString
                 \/ candidate.id # NoString
        qualifying == /\ candidate.tag \in textContainers
                      /\ Len(Trim(candidate.textContent)) >= MIN_TEXT_LENGTH
    IN  /\ classified \in {"image", "preview", "text", "none"}
        /\ image => classified = "image"
        /\ (~image /\ control /\ keyed) => classified = "preview"
        /\ (~image /\ control /\ ~keyed) => classified = "none"
        /\ (~image /\ ~control /\ qualifying) => classified = "text"
        /\ (~image /\ ~control /\ ~qualifying) => classified = "none"

\* a block with role=button whose text would qualify for a text summary got
\* the purpose summary
C20_Witness ==
  /\ classified = "preview"
  /\ candidate.tag = "DIV"
  /\ candidate.role = "button"
  /\ candidate.id = NoString
  /\ candidate.ariaLabel = NoString
  /\ Len(Trim(candidate.textContent)) >= MIN_TEXT_LENGTH


\* C21: a hover over a text input, a select control or a textarea never
\* triggers any pipeline, whatever the element's attributes (role, id,
\* aria-label, text): handleHover schedules nothing for it, so that no
\* debounce timer is started, no request is sent and no tooltip is shown.
C21_FormControlsExcluded ==
  (classified # "" /\ candidate.tag \in {"INPUT", "TEXTAREA", "SELECT"}) =>
    classified = "none"


\* C22: the upgrade flow sets subscriptionStatus to 'paid' only when the
\* identity flow returns a redirect containing an access token; on a sign-in
\* error, a missing redirect or a missing token, and whenever no client
\* identifier is configured, the stored subscriptionStatus, llmApiKey and
\* freeTooltipsUsed are left unchanged.
C22_UpgradeOnlyWithToken ==
  [][/\ authResult' # "" =>
          /\ llmApiKey' = llmApiKey
          /\ freeTooltipsUsed' = freeTooltipsUsed
          /\ subscriptionStatus' =
               IF authResult' = "token" THEN "paid" ELSE subscriptionStatus
     /\ (subscriptionStatus' = "paid" /\ subscriptionStatus # "paid") =>
          (authResult' = "token" /\ GOOGLE_CLIENT_ID # "")
     /\ GOOGLE_CLIENT_ID = "" =>
          (~authPending' /\ authResult' = "" /\ subscriptionStatus' # "paid")]_vars

\* the sign-in has just failed for a user of the free plan with one action
\* used: plan and count are as they were
C22_Witness ==
  /\ authResult = "lastError"
  /\ subscriptionStatus = "free"
  /\ freeTooltipsUsed = 1
  /\ llmApiKey = NoString


\* C23: a storage failure is never fatal to a summary hover.  When the read
\* of the summary cache fails, the hover goes on as on a miss: the cache is
\* left alone and, the target being in the document, the summarizeText
\* request is sent (an error is shown instead when sendMessage throws, as on
\* a miss).  When the write of the summary cache has settled after a
\* successful response, failed or not, the result tooltip is rendered.
C23_StorageFailuresNotFatal ==
  [][\A h \in Hovers :
       /\ (/\ hover[h].pc = "cacheRead"
           /\ hover'[h].pc # "cacheRead"
           /\ readOutcome' = "fails") =>
            /\ summaryCache' = summaryCache
            /\ hover[h].target \in attached =>
                 \/ hover'[h].pc = "response" /\ shown' = NoShow
                 \/ shown'.target = hover[h].target /\ shown'.content = "error"
       /\ (hover[h].pc = "cacheWrite" /\ hover'[h].pc # "cacheWrite") =>
            (shown'.target = hover[h].target /\ shown'.content = "result")]_vars

\* the result of a successful response is on display although its write to
\* the cache failed: the cache has no entry for it
C23_Witness ==
  /\ shown.content = "result"
  /\ KindOf(shown.target) \in {"text", "preview"}
  /\ summaryCache[shown.target] = Undefined


(***************************************************************************)
(* The content script and the service worker together: the requests of the *)
(* hover pipelines are the messages the onMessage listener receives, and   *)
(* the responses handed to sendResponse are the ones the pipelines'        *)
(* callbacks run with.  The page keeps its elements, the stored plan is    *)
(* Free with no action used, and the worker is handed one request at a     *)
(* time; concurrent requests are the subject of Spec, removed elements     *)
(* that of SpecHover and SpecLinkDetach.                                   *)
(***************************************************************************)
\* faulty variant: an image hover asks for a summary
alwaysSummarize(target) == "summarizeText"

\* the action a pipeline requests: content.ts lines 396-400 (ocrImage),
\* 489-493 and 609-613 (summarizeText)
requestedAction(target) ==
  IF KindOf(target) = "image" THEN "ocrImage" ELSE "summarizeText"

\* faulty variant: a failure is taken for a result
failureTakenForSuccess(response) == "success"

\* how the callbacks of content.ts read a response: lines 412, 420, 433
\* (image), 625, 643, 656 (text), 501, 541 (preview)
responseClass(response) ==
  IF response.success THEN IF response.result # "" THEN "success" ELSE "empty"
  ELSE IF response.error # "" THEN "error" ELSE "none"

\* the listener of the service worker receives the message pipeline h sent
LinkReceive(h, c) ==
  /\ hover[h].pc = "response"
  /\ served[hover[h].id] = {}
  /\ \A d \in Calls : call[d].pc = "idle"
  /\ Receive(c, requestedAction(hover[h].target), hover[h].id)

\* the callback of pipeline h runs with the response sendResponse was given
LinkDeliver(h) ==
  /\ hover[h].pc = "response"
  /\ served[hover[h].id] # {}
  /\ \E response \in served[hover[h].id] : ResponseArrives(h, responseClass(response))

\* the page removes the target of pipeline h while the response to its
\* request is on its way to the callback
TargetLeaves(h) ==
  /\ hover[h].pc = "response"
  /\ served[hover[h].id] # {}
  /\ RemoveElement(hover[h].target)

InitLink ==
  /\ llmApiKey = NoString
  /\ freeTooltipsUsed = 0
  /\ subscriptionStatus = "free"
  /\ DEFAULT_FREE_API_KEY = DevKey
  /\ GOOGLE_CLIENT_ID = ""
  /\ syncQueue = <<>>
  /\ call = [c \in Calls |-> NewCall]
  /\ last = NewCall
  /\ offscreenDoc = TRUE
  /\ authPending = FALSE
  /\ served = [i \in 1..MaxHovers |-> {}]
  /\ authResult = ""
  /\ requests = 0
  /\ granted = 0
  /\ installs = MaxInstalls
  /\ HoverIdle
  /\ candidate = NoElement

NextLink ==
  \/ \E e \in Elements : MouseOver(e)
  \/ MouseOut
  \/ \E h \in Hovers, t \in Elements : DebounceFires(h, t)
  \/ \E h \in Hovers, outcome \in {"hit", "miss", "fails"}, sent \in BOOLEAN :
       CacheRead(h, outcome, sent)
  \/ \E h \in Hovers, outcome \in PreviewOutcomes, readOk \in BOOLEAN :
       PreviewSettles(h, outcome, readOk)
  \/ \E h \in Hovers : AwaitPreview(h)
  \/ \E h \in Hovers, ok \in BOOLEAN : CacheWrite(h, ok)
  \/ \E h \in Hovers, c \in Calls : LinkReceive(h, c)
  \/ \E c \in Calls : ResolveRead(c)
  \/ \E c \in Calls : ResolveReadFails(c)
  \/ \E c \in Calls : ResolveWrite(c)
  \/ \E c \in Calls : EnsureAttempt(c)
  \/ \E c \in Calls : PingOk(c)
  \/ \E c \in Calls : PingFails(c)
  \/ \E c \in Calls : ProcessorUnreachable(c)
  \/ \E c \in Calls : ProcessorSilent(c)
  \/ \E c \in Calls, ok \in BOOLEAN : ProcessorReplies(c, ok)
  \/ \E h \in Hovers : LinkDeliver(h)

SpecLink == InitLink /\ [][NextLink]_vars

\* the same, on a page that removes targets whose response is on its way
NextLinkDetach ==
  \/ NextLink
  \/ \E h \in Hovers : TargetLeaves(h)

SpecLinkDetach == InitLink /\ [][NextLinkDetach]_vars


\* C24: handleRequest pings the processor at most MAX_ATTEMPTS times; when
\* the last ping fails, or the processInOffscreen message cannot be
\* delivered, it answers success = false with errorCode
\* OFFSCREEN_UNAVAILABLE, a code no response of processLLM carries; the
\* callback of the pipeline that gets this response renders an error
\* tooltip for its target, the preview pipeline once its preview has
\* settled
C24_TransportFailureSurfaces ==
  [][/\ \A c \in Calls :
          /\ call'[c].attempt <= MAX_ATTEMPTS
          /\ (/\ call[c].pc = "ping"
              /\ call'[c] # call[c]
              /\ call'[c].pc # "process"
              /\ call[c].attempt >= MAX_ATTEMPTS) =>
               /\ last'.pc = "done"
               /\ last'.id = call[c].id
               /\ last'.response # {}
               /\ \A r \in last'.response :
                    ~r.success /\ r.errorCode = "OFFSCREEN_UNAVAILABLE"
          /\ (call[c].pc = "ping" /\ call'[c].pc = "idle") =>
               call[c].attempt = MAX_ATTEMPTS
     /\ \A r \in last'.response :
          r.error \in {"Missing OpenAI API key.", "OpenAI request failed.", "OCR failed"} =>
            r.errorCode # "OFFSCREEN_UNAVAILABLE"
     /\ \A h \in Hovers :
          /\ (/\ hover[h].pc = "response"
              /\ hover'[h].pc # "response"
              /\ \E r \in served[hover[h].id] : r.errorCode = "OFFSCREEN_UNAVAILABLE"
              /\ hover[h].target \in attached) =>
               \/ shown'.target = hover[h].target /\ shown'.content = "error"
               \/ /\ KindOf(hover[h].target) = "preview"
                  /\ hover'[h].pc = "awaitPreview"
                  /\ hover'[h].response = "error"
          /\ (/\ hover[h].pc = "awaitPreview"
              /\ hover[h].response = "error"
              /\ hover'[h].pc # "awaitPreview") =>
               (shown'.target = hover[h].target /\ shown'.content = "error")]_vars

\* the only pipeline of the page got the answer of a request that gave up
\* after the fifth ping, and its error tooltip is shown
C24_Witness ==
  /\ firings = 1
  /\ last.pc = "done"
  /\ last.attempt = MAX_ATTEMPTS
  /\ \E r \in last.response : r.errorCode = "OFFSCREEN_UNAVAILABLE"
  /\ served[1] = last.response
  /\ \A h \in Hovers : hover[h].pc = "idle"
  /\ shown.content = "error"
  /\ shown.attached


(***************************************************************************)
(* handleRequest under fair scheduling: a storage call that was issued is  *)
(* served, the delay timers of ensureOffscreenReady fire, a ping is        *)
(* answered or its timer of 2 s fires (lines 30-58), and the callback of   *)
(* the processInOffscreen message runs.                                    *)
(***************************************************************************)
SpecBrokerFair ==
  /\ SpecBroker
  /\ \A c \in Calls :
       /\ WF_vars(ResolveRead(c) \/ ResolveReadFails(c))
       /\ WF_vars(ResolveWrite(c))
       /\ WF_vars(EnsureAttempt(c))
       /\ WF_vars(PingOk(c) \/ PingFails(c))
       /\ WF_vars(\/ ProcessorUnreachable(c)
                  \/ ProcessorSilent(c)
                  \/ \E ok \in BOOLEAN : ProcessorReplies(c, ok))

\* resolveUsageAndApiKey has decided to grant the request of invocation c
Authorized(c) == call[c].pc \in {"set", "ensure", "ping", "process"}

\* C25: a request that was granted is answered: the invocation ends, and it
\* ends by handing exactly one response to sendResponse
C25_AuthorizedRequestsAnswered ==
  /\ \A c \in Calls :
       Authorized(c) ~>
         (call[c].pc = "idle" /\ last.pc = "done" /\ Cardinality(last.response) = 1)
  /\ [][\A c \in Calls :
          /\ (Authorized(c) /\ ~Authorized(c)') =>
               /\ call'[c] = NewCall
               /\ last'.pc = "done"
               /\ last'.action = call[c].action
               /\ Cardinality(last'.response) = 1
          /\ last'.pc = "done" => \E d \in Calls : call[d].pc # "idle" /\ call'[d] = NewCall]_vars

\* a granted request of the free tier was answered after the processor
\* was pinged more than once
C25_Witness ==
  /\ last.pc = "done"
  /\ last.wrote # Undefined
  /\ last.attempt > 1
  /\ \E r \in last.response : r.success


\* C26: at most one enrichment request (ocrImage or summarizeText) sent by
\* the hover pipelines of a page awaits its response at any time
C26_OneRequestInFlight ==
  Cardinality({h \in Hovers : hover[h].pc = "response"}) <= 1


\* C27: the write of initializeFreeTierDefaults changes no freeTooltipsUsed
\* and no subscriptionStatus that is stored when it takes effect
C27_InitOnlyFillsMissing ==
  [][(HeadIs(0, "set") /\ syncQueue' = Tail(syncQueue)) =>
       /\ freeTooltipsUsed # Undefined => freeTooltipsUsed' = freeTooltipsUsed
       /\ subscriptionStatus # "" => subscriptionStatus' = subscriptionStatus]_vars


\* C28: the step in which resolveUsageAndApiKey denies a request changes
\* nothing of the stored UsageState and issues no write, the invocation
\* ends there without a key handed on or a ping sent, and only a request
\* that was granted is dispatched
C28_DenialChangesNothing ==
  [][/\ (last'.pc = "done" /\ last'.apiResolution.error # "") =>
          /\ llmApiKey' = llmApiKey
          /\ freeTooltipsUsed' = freeTooltipsUsed
          /\ subscriptionStatus' = subscriptionStatus
          /\ syncQueue' = Tail(syncQueue)
          /\ offscreenDoc' = offscreenDoc
          /\ last'.wrote = Undefined
          /\ last'.apiKeySent = NoString
          /\ last'.attempt = 0
          /\ \A c \in Calls : call'[c] = call[c] \/ call'[c] = NewCall
     /\ last'.pc = "dispatched" => last'.apiResolution.error = ""]_vars

\* a request was just denied because the free tier is exhausted, while
\* another request is still being served
C28_Witness ==
  /\ last.pc = "done"
  /\ last.apiResolution.requiresUpgrade
  /\ last.apiResolution.usageInfo.freeTooltipsRemaining = 0
  /\ freeTooltipsUsed = FREE_TIER_LIMIT
  /\ \E c \in Calls : call[c].pc # "idle"


InitGate ==
  /\ llmApiKey = NoString
  /\ freeTooltipsUsed \in {Undefined} \cup 0..FREE_TIER_LIMIT
  /\ subscriptionStatus = IF freeTooltipsUsed = Undefined THEN "" ELSE "free"
  /\ DEFAULT_FREE_API_KEY \in {NoString, DevKey}
  /\ GOOGLE_CLIENT_ID \in {"", "client-id"}
  /\ syncQueue = <<>>
  /\ call = [c \in Calls |-> NewCall]
  /\ last = NewCall
  /\ offscreenDoc = FALSE
  /\ authPending = FALSE
  /\ served = [i \in 1..MaxHovers |-> {}]
  /\ authResult = ""
  /\ requests = 0
  /\ granted = 0
  /\ installs = 0
  /\ HoverIdle
  /\ candidate = NoElement

SpecGate == InitGate /\ [][Next]_vars

\* C30: the stored counter is never above FREE_TIER_LIMIT, and no write
\* that is under way carries a count above it
C30_UsedWithinLimit ==
  /\ freeTooltipsUsed <= FREE_TIER_LIMIT
  /\ \A i \in 1..Len(syncQueue) :
       syncQueue[i].op = "set" => syncQueue[i].used <= FREE_TIER_LIMIT

\* two requests were served concurrently: both were granted, and the
\* counter stands at the limit
C30_Witness ==
  /\ freeTooltipsUsed = FREE_TIER_LIMIT
  /\ granted = 2
  /\ last.pc = "dispatched"
  /\ last.wrote = FREE_TIER_LIMIT


\* C31: a pipeline whose read of the summary cache returned a summary sends
\* no request: it never waits for a response, the read leaves the worker,
\* its storage queue and freeTooltipsUsed as they were, and every message
\* the worker receives comes from a pipeline that missed the cache
C31_CacheHitBypassesGate ==
  [][/\ \A h \in Hovers :
          /\ (hover[h].pc = "cacheRead" /\ hover'[h] # hover[h] /\ readOutcome' = "hit") =>
               /\ hover'[h].pc \in {"idle", "capture", "awaitPreview"}
               /\ hover'[h].response = ""
               /\ freeTooltipsUsed' = freeTooltipsUsed
               /\ requests' = requests
               /\ call' = call
               /\ syncQueue' = syncQueue
          /\ (hover[h].pc # "response" /\ hover'[h].pc = "response") =>
               readOutcome' \in {"", "miss", "expired", "fails"}
     /\ \A c \in Calls :
          (call[c].pc = "idle" /\ call'[c].pc # "idle") =>
            \E h \in Hovers : hover[h].pc = "response" /\ hover[h].id = call'[c].id
     /\ requests' > requests =>
          \E h \in Hovers : hover[h].pc = "response" /\ served[hover[h].id] = {}]_vars

\* the second hover over a paragraph is served from the cache: one request
\* was made in all, one free action is used
C31_Witness ==
  /\ readOutcome = "hit"
  /\ shown.content = "cached"
  /\ KindOf(shown.target) = "text"
  /\ firings = 2
  /\ requests = 1
  /\ freeTooltipsUsed = 1


\* C32: the count written when a request of plan Free is granted stays
\* stored whatever becomes of the request: no step of handleRequest past
\* the gate, no answer it sends (result, processor error, processor
\* unreachable or silent) and no step of the content script, for a target
\* in the document or out of it, changes freeTooltipsUsed
C32_FreeActionNeverRefunded ==
  [][/\ freeTooltipsUsed' >= freeTooltipsUsed
     /\ \A c \in Calls :
          /\ (call[c].pc \in {"ensure", "ping", "process"} /\ call'[c] # call[c]) =>
               freeTooltipsUsed' = freeTooltipsUsed
          /\ (call[c].wrote # Undefined /\ call'[c] = NewCall) =>
               /\ last'.pc = "done"
               /\ freeTooltipsUsed' = call[c].wrote
     /\ \A h \in Hovers :
          (hover[h].pc = "response" /\ hover'[h].pc # "response") =>
            /\ freeTooltipsUsed' = freeTooltipsUsed
            /\ syncQueue' = syncQueue
            /\ call' = call]_vars

\* the request of a pipeline was granted on plan Free and failed, its
\* target left the document before the callback ran, and the action stays
\* counted
C32_Witness ==
  /\ firings = 1
  /\ \E r \in served[1] : ~r.success /\ r.usageInfo # {}
  /\ last.pc = "done"
  /\ last.wrote = 1
  /\ \A h \in Hovers : hover[h].pc = "idle"
  /\ attached # Elements
  /\ freeTooltipsUsed = 1


\* C33 as stated: once a result arrived for a target that left the
\* document, nothing is stored under the target's key, so that a later hover
\* misses.  Violated when another pipeline of the same key stored its result
C33_LaterHoverMisses ==
  [][\A h \in Hovers :
       (hover[h].pc = "response" /\ hover'[h].pc # "response" /\ dropped' = "result") =>
         summaryCache'[hover[h].target] = Undefined]_vars

\* C33: the callback given a result for a target that left the document
\* returns at once: it writes no cache, shows nothing and does not go on to
\* cacheSummary; and a read of a key under which nothing is stored misses,
\* after which the request is sent
C33_DetachedResultNotCached ==
  [][\A h \in Hovers :
       /\ (hover[h].pc = "response" /\ hover'[h].pc # "response" /\ dropped' = "result") =>
            /\ summaryCache' = summaryCache
            /\ previewCache' = previewCache
            /\ hover'[h].pc \in {"idle", "capture"}
            /\ shown' = NoShow
       /\ (/\ hover[h].pc = "cacheRead"
           /\ hover'[h].pc # "cacheRead"
           /\ summaryCache[hover[h].target] = Undefined) =>
            /\ readOutcome' \in {"miss", "fails"}
            /\ summaryCache'[hover[h].target] = Undefined
            /\ hover[h].target \in attached =>
                 \/ hover'[h].pc = "response"
                 \/ shown'.target = hover[h].target /\ shown'.content = "error"]_vars

\* a result has just been dropped, and nothing is stored under any element
\* that left the document
C33_Witness ==
  /\ dropped = "result"
  /\ attached # Elements
  /\ \A e \in Elements \ attached : summaryCache[e] = Undefined


\* C34 in a form a finite run refutes: as long as a processing tooltip is
\* in the document, something that will remove or replace it is pending:
\* the pipeline that showed it has a continuation to run, or the pointer is
\* over its target, whose mouseout listener removes it
C34_ProcessingTooltipGoes ==
  \A t \in tooltips :
    t.processing =>
      \/ \E h \in Hovers :
           hover[h].pc \notin {"idle", "capture"} /\ hover[h].target = t.target
      \/ pointer = t.target /\ t.target \in mouseoutListeners


\* C35: a request that reads plan Paid and no custom key is denied with
\* API_KEY_REQUIRED, whether it asks for a summary or for recognition and
\* whatever count of free actions it reads; it stores nothing and is not
\* told to upgrade
C35_PaidWithoutKeyLosesFreeAccess ==
  \A r \in Records :
    (Decided(r) /\ r.data.llmApiKey = NoString /\ r.data.subscriptionStatus = "paid") =>
      /\ Denied(r, "API_KEY_REQUIRED")
      /\ ~r.apiResolution.requiresUpgrade
      /\ r.apiResolution.newUsedCount = Undefined
      /\ r.wrote = Undefined
      /\ r.apiKeySent = NoString

\* after an upgrade taken with no free action used, a recognition request
\* has just been denied
C35_Witness ==
  /\ Denied(last, "API_KEY_REQUIRED")
  /\ last.action = "ocrImage"
  /\ last.data.subscriptionStatus = "paid"
  /\ last.data.freeTooltipsUsed = 0
  /\ last.data.freeTooltipsUsed < FREE_TIER_LIMIT
  /\ granted = 0


\* C36: a summarizeText request that handleRequest takes past the gate
\* carries a key that is not empty: the custom key it read, or else the
\* configured fallback key; processLLM is never run for a summary without a
\* key
C36_SummaryJobsCarryKey ==
  /\ \A r \in Records :
       (PastGate(r) /\ r.action = "summarizeText") =>
         /\ r.apiKeySent # NoString
         /\ r.apiKeySent = IF r.data.llmApiKey # NoString THEN r.data.llmApiKey
                           ELSE DEFAULT_FREE_API_KEY
  /\ \A resp \in last.response : resp.error # "Missing OpenAI API key."
  /\ (last.pc = "done" /\ last.action = "summarizeText" /\ last.attempt > 0) =>
       last.apiKeySent # NoString

\* a summary request of plan Free is with the processor, carrying the
\* fallback key
C36_Witness ==
  \E c \in Calls :
    /\ call[c].pc = "process"
    /\ call[c].action = "summarizeText"
    /\ call[c].data.llmApiKey = NoString
    /\ call[c].apiKeySent = DevKey
    /\ call[c].wrote # Undefined


\* C37: an auto-dismiss timer that fires removes its own tooltip and no
\* other, and nothing when that tooltip is gone; a pointer-out of an element
\* none of whose tooltips is left in the document removes nothing
C37_RemovalsAreIdempotent ==
  [][/\ \A t \in autoHide :
          t \notin autoHide' =>
            /\ tooltips' = {x \in tooltips : x.id # t}
            /\ currentTooltip' = IF currentTooltip = t THEN 0 ELSE currentTooltip
     /\ (/\ pointer # 0
         /\ pointer' = 0
         /\ attached' = attached
         /\ \A x \in tooltips : x.target # pointer) =>
          (tooltips' = tooltips /\ currentTooltip' = currentTooltip)]_vars


(***************************************************************************)
(* getOrCapturePreview, lines 341-359, as a function of the preview cache  *)
(* and of whether the read of the cache (getCachedPreview), the capture    *)
(* (requestPreviewCapture) and the write of the cache (cachePreview)       *)
(* succeed.  The capture and the write share one try block: a rejection of *)
(* either is caught at line 355 and null is returned.                      *)
(***************************************************************************)
getOrCapturePreview(cache, previewKey, readOk, captureOk, writeOk) ==
  LET read == getCachedPreview(cache, previewKey)
      afterRead == IF readOk THEN read.cache ELSE cache
  IN  IF readOk /\ read.dataUrl = "value" THEN [dataUrl |-> "cached", cache |-> cache]
      ELSE IF ~captureOk THEN [dataUrl |-> "null", cache |-> afterRead]
      ELSE IF ~writeOk THEN [dataUrl |-> "null", cache |-> afterRead]
      ELSE [dataUrl |-> "captured", cache |-> cachePreview(afterRead, previewKey)]

\* a call of getOrCapturePreview for the key of a link or button settles
GetOrCapturePreview(previewKey, readOk, captureOk, writeOk) ==
  LET settled == getOrCapturePreview(previewCache, previewKey, readOk, captureOk, writeOk)
  IN  /\ KindOf(previewKey) = "preview"
      /\ previewCache' = settled.cache
      /\ previewCall' = [previewKey |-> previewKey, readOk |-> readOk,
                         captureOk |-> captureOk, writeOk |-> writeOk,
                         dataUrl |-> settled.dataUrl]
      /\ UNCHANGED <<gateVars, now, candidate, classified, ping, attached, pointer, timerVars,
                     cleared, readOutcome, dropped, hover, tooltipVars, summaryCache,
                     shown, firings>>

NextPreview ==
  \/ \E previewKey \in Elements, readOk \in BOOLEAN, captureOk \in BOOLEAN,
        writeOk \in BOOLEAN :
       GetOrCapturePreview(previewKey, readOk, captureOk, writeOk)
  \/ Tick

SpecPreview == InitHover /\ [][NextPreview]_vars

\* C38: a call whose capture succeeded returns the captured data URL, also
\* when the write of the cache failed; a call whose read of the cache
\* failed goes on to capture; null is returned only when the capture failed
C38_CaptureSurvivesCacheFailure ==
  previewCall # NoPreviewCall =>
    /\ (previewCall.dataUrl # "cached" /\ previewCall.captureOk) =>
         previewCall.dataUrl = "captured"
    /\ ~previewCall.readOk => previewCall.dataUrl # "cached"
    /\ previewCall.dataUrl = "null" => ~previewCall.captureOk


(***************************************************************************)
(* pingOffscreen, background.js lines 30-58: one promise, settled by the   *)
(* callback of the timeout or by the callback of sendMessage, whichever    *)
(* runs first.                                                             *)
(***************************************************************************)
\* what the callback of sendMessage can be given: {status: 'ok'}, nothing
\* with chrome.runtime.lastError set, or any other response
PingReplies == {"ok", "lastError", "unexpected"}

\* faulty variant: the flag 'settled' is never found set
settledNeverSeen(p) == FALSE

\* the tests of the flag 'settled', lines 33 and 44
alreadySettled(p) == p.settled

\* resolve() or reject(): a promise that is no longer pending keeps its
\* state and its reason
SettlePromise(p, state, reason) ==
  [p EXCEPT !.settlements = @ + 1,
            !.pc = IF p.pc = "pending" THEN state ELSE @,
            !.reason = IF p.pc = "pending" THEN reason ELSE @]

\* the executor of the promise, lines 31-42: start the timeout, send the
\* message
PingStart(p) ==
  /\ ping[p] = NoPing
  /\ ping' = [ping EXCEPT ![p] = [NoPing EXCEPT !.pc = "pending", !.timer = TRUE,
                                                !.callback = TRUE]]
  /\ UNCHANGED <<gateVars, now, candidate, classified, previewCall, attached, pointer,
                 timerVars, cleared, readOutcome, dropped, hover, tooltipVars,
                 cacheVars, shown, firings>>

\* the callback of setTimeout, lines 32-37
PingTimerFires(p) ==
  /\ ping[p].timer
  /\ ping' = [ping EXCEPT ![p] =
                IF alreadySettled(ping[p])
                THEN [ping[p] EXCEPT !.timer = FALSE]
                ELSE SettlePromise([ping[p] EXCEPT !.timer = FALSE, !.settled = TRUE],
                                   "rejected", "timeout")]
  /\ UNCHANGED <<gateVars, now, candidate, classified, previewCall, attached, pointer,
                 timerVars, cleared, readOutcome, dropped, hover, tooltipVars,
                 cacheVars, shown, firings>>

\* the callback of sendMessage, lines 43-57; clearTimeout (line 46) cancels
\* the timeout
PingCallback(p, reply) ==
  /\ ping[p].callback
  /\ ping' = [ping EXCEPT ![p] =
                LET arrived == [ping[p] EXCEPT !.callback = FALSE, !.reply = reply]
                    stopped == [arrived EXCEPT !.settled = TRUE, !.timer = FALSE]
                IN  IF alreadySettled(ping[p]) THEN arrived
                    ELSE IF reply = "lastError"
                         THEN SettlePromise(stopped, "rejected", "lastError")
                    ELSE IF reply # "ok"
                         THEN SettlePromise(stopped, "rejected", "unexpected")
                    ELSE SettlePromise(stopped, "fulfilled", "")]
  /\ UNCHANGED <<gateVars, now, candidate, classified, previewCall, attached, pointer,
                 timerVars, cleared, readOutcome, dropped, hover, tooltipVars,
                 cacheVars, shown, firings>>

NextPing ==
  \/ \E p \in Pings : PingStart(p)
  \/ \E p \in Pings : PingTimerFires(p)
  \/ \E p \in Pings, reply \in PingReplies : PingCallback(p, reply)

SpecPing == InitBroker /\ [][NextPing]_vars

\* C39: in every interleaving of the timeout and of the callback of
\* sendMessage, resolve or reject is called once for each pingOffscreen
\* promise, by whichever of the two runs first; the one that runs second
\* changes neither the state of the promise nor the reason of its rejection
C39_PingSettlesOnce ==
  [][\A p \in Pings :
       /\ ping'[p].settlements <= 1
       /\ (ping'[p].pc # "idle" /\ (~ping'[p].timer \/ ~ping'[p].callback)) =>
            /\ ping'[p].settlements = 1
            /\ ping'[p].pc \in {"fulfilled", "rejected"}
       /\ ping[p].pc \in {"fulfilled", "rejected"} =>
            /\ ping'[p].pc = ping[p].pc
            /\ ping'[p].reason = ping[p].reason
       /\ ping'[p].pc = "fulfilled" => ping'[p].reply = "ok"
       /\ (ping[p].pc = "pending" /\ ~ping'[p].timer /\ ping'[p].callback) =>
            ping'[p].reason = "timeout"]_vars

\* a response {status: 'ok'} arrived after the timeout had rejected the
\* promise, and was ignored
C39_Witness ==
  \E p \in Pings :
    /\ ping[p].reply = "ok"
    /\ ping[p].pc = "rejected"
    /\ ping[p].reason = "timeout"
    /\ ping[p].settlements = 1
    /\ ~ping[p].callback

====
